---- MODULE Spec2Model ----
(***************************************************************************)
(* The script / MP3 lifecycle of frontend/static/js/dashboard.js.          *)
(*                                                                         *)
(* The page is single threaded: every handler runs from one await to the   *)
(* next without interruption, so one action of this module is one such     *)
(* run-to-next-await of one handler.  A request has three steps: the       *)
(* client sends it, the backend handles it (Serve), the client handles     *)
(* the response.  The backend is not part of dashboard.js; it is the       *)
(* environment and follows the HTTP contract of the specification.         *)
(***************************************************************************)
EXTENDS Integers, Sequences, FiniteSets, TLC

\* ---------------------------------------------------------------- bounds
NumScripts == 2          \* scripts of the product in the bulk scenarios
OneScript == 1           \* scripts of the product in the single-script scenarios
MaxInFlight == 2         \* async operations (requests, poll chains, timers) alive at once
MaxRefresh == 2           \* calls of refreshDashboard
MaxChains == 1           \* poll chains (and generate requests leading to one) alive at once
BusyRounds == 2          \* the user acts only in the first and last BusyRounds rounds of a chain
NumProducts == 2         \* products in the catalogue

\* ------------------------------------------------------ program constants
maxAttempts == 30        \* pollMP3Generation
bulkMaxAttempts == 60    \* pollBulkMP3Generation
pollDelay == 1000        \* ms between single polls
bulkPollDelay == 2000    \* ms between bulk rounds
reloadDelay == 500       \* ms before the forced reload of deleteMP3

ScriptIds == 1..NumScripts
Slots == 1..MaxInFlight
FilterValues == {"", "p1"}      \* #scripts-product-filter: nothing selected, the product
Outcomes == {"ok", "notok", "reject"}   \* 2xx, non-2xx, rejected fetch / unparsable body
\* 2xx answers whose `scripts` / `products` field is not an array: absent (or null), an
\* object, a non-empty string
OddOutcomes == {"ok_missing", "ok_object", "ok_string"}
AllFilterValues == FilterValues \cup {"all"}

VARIABLES
    srv,             \* backend: the scripts of the product, script id -> [has_mp3, can_edit, job]
    currentScripts,  \* the page-level cache, a sequence of script objects
    view,            \* what #scripts-content shows: [kind, cards]
    filter,          \* value of #scripts-product-filter
    modal,           \* content of #modal-container
    tasks,           \* slot -> the async operation that lives there
    voicePersonas,   \* the voice personas loadPersonas stored, a sequence of [id, tts_provider]
    navListeners,    \* click listeners setupNavigation has put on each navigation item
    errorListeners,  \* error listeners initializeDashboard has put on the window
    deleted,         \* backend: the products that were deleted
    ev,              \* what the last step did: [op, slot, id, alerts, reqs, timers]
    section,         \* the active content section
    currentProducts, \* the page-level product cache, a JavaScript value [kind, items]
    filteredProducts,\* the products the grid is drawn from, a sequence
    grid             \* what #products-grid shows: [kind, cards]

\* the state of the products section and of the navigation
\* what the page set up at load time
page == <<voicePersonas, navListeners, errorListeners, deleted>>
shop == <<section, currentProducts, filteredProducts, grid, page>>
vars == <<srv, currentScripts, view, filter, modal, tasks, ev, section, currentProducts,
          filteredProducts, grid, voicePersonas, navListeners, errorListeners, deleted>>

\* ---------------------------------------------------------------- values
Script(s, st) == [id |-> s, has_mp3 |-> st[s].has_mp3, can_edit |-> st[s].can_edit]
ScriptList(st) == SelectSeq([s \in 1..Len(st) |-> Script(s, st)], LAMBDA q : ~st[q.id].gone)

NoResp == [st |-> "none", body |-> <<>>]
Pending == [st |-> "pending", body |-> <<>>]
NoGot == [s \in ScriptIds |-> "none"]

Idle == [op |-> "idle", id |-> 0, ids |-> {}, attempts |-> 0, pc |-> "none",
         resp |-> NoResp, got |-> NoGot, gets |-> 0, count |-> 0, log |-> <<>>,
         parts |-> <<>>, sent |-> <<>>]
NewTask(op, id) == [Idle EXCEPT !.op = op, !.id = id, !.pc = "wait", !.resp = Pending]

NoModal == [kind |-> "none", id |-> 0, listed |-> {}, ids |-> {}, rows |-> <<>>,
            providers |-> <<>>, provider |-> "", voices |-> <<>>, voice |-> 0]
EditModal(s) == [NoModal EXCEPT !.kind = "edit", !.id = s]
\* the value of a select element: its first option, 0 (the empty string) without options
FirstOf(options) == IF options = <<>> THEN 0 ELSE options[1]
\* generateProviderOptions: the available providers, or the default option
ProviderOptions(available) == IF available = <<>> THEN <<"edge">> ELSE available
\* updateProviderVoices: the personas without a provider or with the selected one
Voices(personas, provider) ==
    LET f == SelectSeq(personas, LAMBDA q : q.tts_provider = "" \/ q.tts_provider = provider)
    IN [k \in 1..Len(f) |-> f[k].id]
\* the voice select of the basic and the bulk dialog: every persona
AllVoices(personas) == [k \in 1..Len(personas) |-> personas[k].id]
\* the enhanced dialog after updateProviderVoices, with provider p selected
WithProvider(m, personas, p) ==
    [m EXCEPT !.provider = p, !.voices = Voices(personas, p),
              !.voice = FirstOf(Voices(personas, p))]
EnhancedModal(s, available, personas) ==
    WithProvider([NoModal EXCEPT !.kind = "mp3", !.id = s,
                                 !.providers = ProviderOptions(available)],
                 personas, ProviderOptions(available)[1])
BasicModal(s, personas) ==
    [NoModal EXCEPT !.kind = "mp3basic", !.id = s, !.voices = AllVoices(personas),
                    !.voice = FirstOf(AllVoices(personas))]
\* the checkbox rows of the bulk dialog: one per cached script without MP3, checked
Rows(cs) ==
    LET f == SelectSeq(cs, LAMBDA c : ~c.has_mp3)
    IN [k \in 1..Len(f) |-> [id |-> f[k].id, checked |-> TRUE]]
\* querySelectorAll('...:checked') mapped to parseInt(cb.value), in document order
Selected(rows) ==
    LET f == SelectSeq(rows, LAMBDA r : r.checked)
    IN [k \in 1..Len(f) |-> f[k].id]
\* the dialog with its rows; listed and ids are the ids listed and the ids checked
WithRows(m, rows) ==
    [m EXCEPT !.rows = rows,
              !.listed = {rows[k].id : k \in 1..Len(rows)},
              !.ids = {Selected(rows)[k] : k \in 1..Len(Selected(rows))}]
BulkModal(rows, personas) ==
    WithRows([NoModal EXCEPT !.kind = "bulk", !.voices = AllVoices(personas),
                             !.voice = FirstOf(AllVoices(personas))], rows)

Req(m, path, id) == [m |-> m, path |-> path, id |-> id, voice |-> 0]
\* POST /mp3/generate with its voice_persona_id; 0 stands for parseInt("") = NaN, which
\* JSON.stringify sends as null
Post(id, voice) == [Req("POST", "generate", id) EXCEPT !.voice = voice]
Ev(op, slot, id, alerts, reqs, timers) ==
    [op |-> op, slot |-> slot, id |-> id, alerts |-> alerts, reqs |-> reqs, timers |-> timers]
\* the step of a handler that opens with confirm(...), with the answer of the user
Asked(e, accept) ==
    [x \in DOMAIN e \cup {"answer"} |-> IF x = "answer" THEN accept ELSE e[x]]
\* faulty variant of Confirmed: the answer is not looked at
Confirmed_Always(accept) == TRUE
\* `if (!confirm(...)) return;`
Confirmed(accept) == accept

HasFree == \E i \in Slots : tasks[i] = Idle
FreeSlots == {i \in Slots : tasks[i] = Idle}
\* the k lowest free slots
Lowest(k) == {i \in FreeSlots : Cardinality({j \in FreeSlots : j < i}) < k}
FreeSlot == CHOOSE i \in Slots : tasks[i] = Idle /\ \A j \in Slots : j < i => tasks[j] # Idle
\* a generate request, and the chain it starts, takes the last free slot
ChainSlot == CHOOSE i \in Slots : tasks[i] = Idle /\ \A j \in Slots : j > i => tasks[j] # Idle

\* poll chains alive, counting the generate requests that start one
Chains == Cardinality({i \in Slots :
            \/ tasks[i].op \in {"poll", "bulk", "bulkgen"}
            \/ tasks[i].op = "gen" /\ tasks[i].pc = "wait"})

\* the user leaves the page alone while a poll chain is in its middle rounds
Quiet ==
    \E i \in Slots :
        /\ tasks[i].op \in {"poll", "bulk"} /\ tasks[i].pc \in {"wait", "timer"}
        /\ tasks[i].attempts >= BusyRounds
        /\ tasks[i].attempts + BusyRounds <
               (IF tasks[i].op = "poll" THEN maxAttempts ELSE bulkMaxAttempts)
UserActs == ~Quiet
\* ... and a chain enters its middle rounds only once every other operation has settled
Alone(i) == \A j \in Slots \ {i} : tasks[j] = Idle

\* index of the script in the cache, 0 when absent (Array.prototype.findIndex, -1)
findIndex(cs, s) ==
    IF \E k \in 1..Len(cs) : cs[k].id = s
    THEN CHOOSE k \in 1..Len(cs) : cs[k].id = s /\ \A j \in 1..(k - 1) : cs[j].id # s
    ELSE 0

\* ------------------------------------------------------------- rendering
Cards(cs) == [k \in 1..Len(cs) |-> [id |-> cs[k].id, has_mp3 |-> cs[k].has_mp3]]
ListView(cs) == [kind |-> "list", cards |-> Cards(cs)]
Placeholder == [kind |-> "placeholder", cards |-> <<>>]
\* faulty variant of ErrorPanel: an empty list is drawn instead
ErrorPanel_EmptyList == ListView(<<>>)
\* the panel of the catch block of loadScripts: the message and the retry button
ErrorPanel == [kind |-> "error", cards |-> <<>>]

\* createScriptCard: Edit / Create MP3 on a card without MP3, Play / Delete MP3 with one
OffersEdit(s) == \E k \in 1..Len(view.cards) : view.cards[k].id = s /\ ~view.cards[k].has_mp3
OffersDeleteMP3(s) == \E k \in 1..Len(view.cards) : view.cards[k].id = s /\ view.cards[k].has_mp3
\* displayScripts: the Bulk MP3 button is drawn when some script has no MP3
OffersBulk == \E k \in 1..Len(view.cards) : ~view.cards[k].has_mp3

\* a JavaScript value that should be an array: an array, or an object or a string
Arr(items) == [kind |-> "array", items |-> items]
NonArr(k) == [kind |-> k, items |-> <<>>]

\* ------------------------------------------------------------------ Init
Draft == [has_mp3 |-> FALSE, can_edit |-> TRUE, job |-> FALSE, gone |-> FALSE]
Generating == [has_mp3 |-> FALSE, can_edit |-> TRUE, job |-> TRUE, gone |-> FALSE]
Locked == [has_mp3 |-> TRUE, can_edit |-> FALSE, job |-> FALSE, gone |-> FALSE]
Frozen == [Draft EXCEPT !.can_edit = FALSE]   \* not editable, no MP3
Gone == [Draft EXCEPT !.can_edit = FALSE, !.gone = TRUE]   \* deleted

\* a voice persona; tts_provider "" is a persona that is bound to no provider
Persona(id, provider) == [id |-> id, tts_provider |-> provider]
\* what loadPersonas stored when the catalogue holds one persona for every provider
DefaultPersonas == <<Persona(1, "")>>

\* the page right after DOMContentLoaded, in front of a backend holding n scripts
\* whose states are drawn from S and a catalogue of personas drawn from P
InitPageWith(n, S, P) ==
    /\ srv \in [1..n -> S]
    /\ voicePersonas \in P
    /\ navListeners = 1
    /\ errorListeners = 1
    /\ deleted = {}
    /\ currentScripts = <<>>
    /\ view = [kind |-> "initial", cards |-> <<>>]
    /\ filter = ""
    /\ modal = NoModal
    /\ tasks = [i \in Slots |-> Idle]
    /\ ev = Ev("init", 0, 0, {}, {}, <<>>)
    /\ section = "overview"
    /\ currentProducts = Arr(<<>>)
    /\ filteredProducts = <<>>
    /\ grid = [kind |-> "initial", cards |-> <<>>]
InitPage(n, S) == InitPageWith(n, S, {DefaultPersonas})

\* the catalogue: the first product owns the scripts of srv, every other product owns
\* one script without MP3 that nothing ever touches
Products == [p \in 1..NumProducts |-> [id |-> p]]
\* the products the backend lists
Catalogue == SelectSeq(Products, LAMBDA q : q.id \notin deleted)
ScriptsOf(p, st) ==
    IF p = 1 THEN ScriptList(st)
    ELSE <<[id |-> Len(st) + p - 1, has_mp3 |-> FALSE, can_edit |-> TRUE]>>

\* --------------------------------------------------------------- backend
\* The backend handles the request of the operation in slot i and fixes the
\* response the client will see.  A rejected fetch may or may not have been
\* applied before the connection broke.
StartJobs(S) == [s \in DOMAIN srv |-> IF s \in S THEN [srv[s] EXCEPT !.job = TRUE] ELSE srv[s]]

Serve(i) ==
    /\ tasks[i].op \in {"edit", "put", "del", "gen", "bulkgen", "poll", "load", "bulk",
                        "loadProducts", "nav", "delscript", "delproduct"}
    /\ tasks[i].pc \in {"wait", "providers", "load", "stats", "products", "options"}
    /\ ~(tasks[i].op = "bulk" /\ tasks[i].pc = "wait")
    /\ tasks[i].resp.st = "pending"
    /\ \E o \in Outcomes, applied \in BOOLEAN :
        LET t == tasks[i]
            done == o = "ok" \/ (o = "reject" /\ applied)
            kind == IF t.pc # "wait" THEN t.pc ELSE t.op
            body == CASE o # "ok" -> <<>>
                      [] kind \in {"edit", "poll"} -> <<Script(t.id, srv)>>
                      [] kind = "load" -> ScriptsOf(1, srv)
                      [] kind \in {"products", "options"} -> Catalogue
                      [] OTHER -> <<>>
        IN /\ (o = "ok" => applied) /\ (o = "notok" => ~applied)
           /\ (applied /\ o = "reject" =>
                    kind \in {"del", "gen", "bulkgen", "delscript", "delproduct"})
           /\ (kind \in {"edit", "poll", "put", "del", "gen", "delscript"} /\ srv[t.id].gone)
                    => ~done
           /\ (kind = "delproduct" /\ t.id \in deleted) => ~done
           /\ srv' = CASE kind = "del" /\ done ->
                            [srv EXCEPT ![t.id].has_mp3 = FALSE, ![t.id].can_edit = TRUE]
                        [] kind = "gen" /\ done -> StartJobs({t.id})
                        [] kind = "bulkgen" /\ done -> StartJobs(t.ids)
                        [] kind = "delscript" /\ done -> [srv EXCEPT ![t.id] = Gone]
                        [] kind = "delproduct" /\ done /\ t.id = 1 ->
                            [s \in DOMAIN srv |-> Gone]
                        [] OTHER -> srv
           /\ deleted' = IF kind = "delproduct" /\ done THEN deleted \cup {t.id} ELSE deleted
           /\ tasks' = [tasks EXCEPT ![i].resp = [st |-> o, body |-> body]]
           /\ ev' = Ev("backend", 0, 0, {}, {}, <<>>)
    /\ UNCHANGED <<currentScripts, view, filter, modal, section, currentProducts,
                   filteredProducts, grid, voicePersonas, navListeners, errorListeners>>

\* a 2xx answer to a list request whose list is not an array
ServeOdd(i) ==
    /\ tasks[i].pc \in {"load", "products"}
    /\ tasks[i].resp.st = "pending"
    /\ \E o \in OddOutcomes : tasks' = [tasks EXCEPT ![i].resp = [st |-> o, body |-> <<>>]]
    /\ ev' = Ev("backend", 0, 0, {}, {}, <<>>)
    /\ UNCHANGED <<srv, currentScripts, view, filter, modal, shop>>

\* one GET /products/{p}/scripts of loadScripts for ALL products
ServePart(i, p) ==
    /\ tasks[i].pc = "all"
    /\ p \in DOMAIN tasks[i].parts /\ tasks[i].parts[p].st = "pending"
    /\ \E o \in Outcomes \cup OddOutcomes :
        tasks' = [tasks EXCEPT ![i].parts[p] =
                    [st |-> o, body |-> IF o = "ok" THEN ScriptsOf(p, srv) ELSE <<>>]]
    /\ ev' = Ev("backend", 0, 0, {}, {}, <<>>)
    /\ UNCHANGED <<srv, currentScripts, view, filter, modal, shop>>

\* one GET /scripts/{s} of a bulk round
ServeBulk(i, s) ==
    /\ tasks[i].op = "bulk" /\ tasks[i].pc = "wait"
    /\ tasks[i].got[s] = "pending"
    /\ \E o \in Outcomes :
        tasks' = [tasks EXCEPT ![i].got[s] =
                    CASE o = "reject" -> "reject"
                      [] o = "ok" /\ srv[s].has_mp3 -> "yes"
                      [] OTHER -> "no"]
    /\ ev' = Ev("backend", 0, 0, {}, {}, <<>>)
    /\ UNCHANGED <<srv, currentScripts, view, filter, modal, shop>>

\* the MP3 job of script s finishes: the script is locked
JobComplete(s) ==
    /\ s \in DOMAIN srv
    /\ srv[s].job
    /\ srv' = [srv EXCEPT ![s] = Locked]
    /\ ev' = Ev("backend", 0, 0, {}, {}, <<>>)
    /\ UNCHANGED <<currentScripts, view, filter, modal, tasks, shop>>

\* ------------------------------------------------------------ loadScripts
\* faulty variant of AfterLoad: no caller reloads the stats
AfterLoad_NoStats(t) == [t |-> Idle, reqs |-> {}]

\* what the caller t does when its `await loadScripts()` returns
AfterLoad(t) ==
    IF t.op \in {"poll", "bulk", "delscript"}
    THEN [t |-> [t EXCEPT !.pc = "stats", !.resp = Pending, !.log = Append(@, "stats")],
          reqs |-> {Req("GET", "stats", 0)}]
    ELSE [t |-> Idle, reqs |-> {}]

\* loadScripts up to its first await, called by operation t with filter value f
LoadCall(t, f) ==
    LET c == [t EXCEPT !.log = Append(@, "load")]
    IN CASE f = "" ->
              [t |-> AfterLoad(c).t, view |-> Placeholder, reqs |-> AfterLoad(c).reqs]
         [] f = "all" ->
              [t |-> [c EXCEPT !.pc = "products", !.resp = Pending], view |-> view,
               reqs |-> {Req("GET", "products", 0)}]
         [] OTHER ->
              [t |-> [c EXCEPT !.pc = "load", !.resp = Pending], view |-> view,
               reqs |-> {Req("GET", "product_scripts", 0)}]

\* the user selects a product in the filter, or reloads the list
LoadScripts(f) ==
    LET r == LoadCall(NewTask("load", 0), f)
    IN /\ UserActs
       /\ (r.t # Idle => HasFree)
       /\ filter' = f
       /\ view' = r.view
       /\ tasks' = IF r.t = Idle THEN tasks ELSE [tasks EXCEPT ![FreeSlot] = r.t]
       /\ ev' = Ev("loadScripts", 0, 0, {}, r.reqs, <<>>)
       /\ UNCHANGED <<srv, currentScripts, modal, shop>>

\* faulty variants of NewCache: every script is cached as locked, the list is appended
\* to the old cache, or the old cache is kept when the request failed
NewCache_Locked(resp) ==
    [k \in 1..Len(resp.body) |-> [resp.body[k] EXCEPT !.has_mp3 = TRUE, !.can_edit = FALSE]]
NewCache_KeptOnFailure(resp) == IF resp.st = "ok" THEN resp.body ELSE currentScripts
NewCache_Merged(resp) == IF resp.st = "ok" THEN currentScripts \o resp.body ELSE <<>>

\* the value loadScripts assigns to currentScripts: the list of the response, or the
\* empty list in the catch block
NewCache(resp) == IF resp.st = "ok" THEN resp.body ELSE <<>>

\* loadScripts after its fetch settled
LoadResp(i) ==
    /\ tasks[i].pc = "load" /\ tasks[i].resp.st \notin {"pending", "none"}
    /\ LET t == tasks[i]
           ok == t.resp.st \in {"ok"} \cup OddOutcomes
           k == AfterLoad(t)
       IN /\ currentScripts' = NewCache(t.resp)
          /\ view' = IF ok THEN ListView(NewCache(t.resp)) ELSE ErrorPanel
          /\ tasks' = [tasks EXCEPT ![i] = k.t]
          /\ ev' = Ev("loadScripts_done", i, t.id,
                      IF ok THEN {} ELSE {"error:load_scripts"}, k.reqs, <<>>)
    /\ UNCHANGED <<srv, filter, modal, shop>>

\* what one product contributes to the merged list: its scripts, or nothing when its
\* request failed or its `scripts` field is not an array
PartScripts(part) == IF part.st = "ok" THEN part.body ELSE <<>>

\* faulty variant of Flat: the merge stops at the first product whose request failed
RECURSIVE Flat_UntilFailure(_)
Flat_UntilFailure(parts) ==
    IF parts = <<>> \/ Head(parts).st # "ok" THEN <<>>
    ELSE Head(parts).body \o Flat_UntilFailure(Tail(parts))

\* scriptArrays.flat()
RECURSIVE Flat(_)
Flat(parts) ==
    IF parts = <<>> THEN <<>> ELSE PartScripts(Head(parts)) \o Flat(Tail(parts))

\* loadScripts for ALL products after GET /products settled: the catch block, or one
\* request per product, all started at once
AllProductsResp(i) ==
    /\ tasks[i].pc = "products" /\ tasks[i].op \notin {"loadProducts", "delproduct"}
    /\ tasks[i].resp.st \notin {"pending", "none"}
    /\ LET t == tasks[i]
           products == IF t.resp.st = "ok" THEN t.resp.body ELSE <<>>
           k == AfterLoad(t)
       IN CASE t.resp.st \in {"notok", "reject", "ok_object", "ok_string"} ->
                 /\ currentScripts' = <<>>
                 /\ view' = ErrorPanel
                 /\ tasks' = [tasks EXCEPT ![i] = k.t]
                 /\ ev' = Ev("loadScripts_done", i, t.id, {"error:load_scripts"}, k.reqs, <<>>)
            [] products = <<>> ->
                 /\ currentScripts' = <<>>
                 /\ view' = ListView(<<>>)
                 /\ tasks' = [tasks EXCEPT ![i] = k.t]
                 /\ ev' = Ev("loadScripts_done", i, t.id, {}, k.reqs, <<>>)
            [] OTHER ->
                 /\ tasks' = [tasks EXCEPT ![i] =
                                [t EXCEPT !.pc = "all", !.resp = NoResp,
                                          !.parts = [p \in 1..Len(products) |-> Pending]]]
                 /\ ev' = Ev("loadScripts_products", i, t.id, {},
                             {Req("GET", "product_scripts", products[p].id) :
                                  p \in 1..Len(products)}, <<>>)
                 /\ UNCHANGED <<currentScripts, view>>
    /\ UNCHANGED <<srv, filter, modal, shop>>

\* loadScripts for ALL products after Promise.all settled
AllResp(i) ==
    /\ tasks[i].pc = "all"
    /\ \A p \in DOMAIN tasks[i].parts : tasks[i].parts[p].st # "pending"
    /\ LET t == tasks[i]
           k == AfterLoad([t EXCEPT !.parts = <<>>])
       IN /\ currentScripts' = Flat(t.parts)
          /\ view' = ListView(Flat(t.parts))
          /\ tasks' = [tasks EXCEPT ![i] = k.t]
          /\ ev' = Ev("loadScripts_done", i, t.id, {}, k.reqs, <<>>)
    /\ UNCHANGED <<srv, filter, modal, shop>>

\* loadDashboardStats after its fetch settled: the caller's chain is over
StatsResp(i) ==
    /\ tasks[i].pc = "stats" /\ tasks[i].resp.st \notin {"pending", "none"}
    /\ tasks' = [tasks EXCEPT ![i] = Idle]
    /\ ev' = Ev("stats_done", i, tasks[i].id,
                IF tasks[i].resp.st = "ok" THEN {} ELSE {"error:stats"}, {}, <<>>)
    /\ UNCHANGED <<srv, currentScripts, view, filter, modal, shop>>

\* ------------------------------------------------------------ loadProducts
\* the product grid: displayProducts, showProductsLoading, showProductsError
ProductGrid(ps) == [kind |-> IF ps = <<>> THEN "empty" ELSE "cards", cards |-> ps]
GridLoading == [kind |-> "loading", cards |-> <<>>]
GridError == [kind |-> "error", cards |-> <<>>]

\* what the spread of a string yields: characters, rendered as cards of no product
Junk == <<[id |-> 0]>>

\* loadProducts up to its fetch (Retry button, product filters, section change)
LoadProducts ==
    /\ UserActs /\ HasFree
    /\ grid' = GridLoading
    /\ tasks' = [tasks EXCEPT ![FreeSlot] =
                    [NewTask("loadProducts", 0) EXCEPT !.pc = "products"]]
    /\ ev' = Ev("loadProducts", 0, 0, {}, {Req("GET", "products", 0)}, <<>>)
    /\ UNCHANGED <<srv, currentScripts, view, filter, modal, section,
                   currentProducts, filteredProducts, page>>

\* what the caller t does when its `await loadProducts()` returns
AfterProducts(t) ==
    IF t.op = "delproduct"
    THEN [t |-> [t EXCEPT !.pc = "stats", !.resp = Pending], reqs |-> {Req("GET", "stats", 0)}]
    ELSE [t |-> Idle, reqs |-> {}]

\* loadProducts after its fetch settled
ProductsResp(i) ==
    /\ tasks[i].op \in {"loadProducts", "delproduct"} /\ tasks[i].pc = "products"
    /\ tasks[i].resp.st \notin {"pending", "none"}
    /\ LET resp == tasks[i].resp
           list == IF resp.st = "ok" THEN resp.body ELSE <<>>
           k == AfterProducts(tasks[i])
       IN CASE resp.st \in {"notok", "reject"} ->
                 /\ grid' = GridError
                 /\ ev' = Ev("loadProducts_done", i, 0, {"error:load_products"}, k.reqs, <<>>)
                 /\ UNCHANGED <<currentProducts, filteredProducts>>
            [] resp.st = "ok_object" ->
                 /\ currentProducts' = NonArr("object")
                 /\ grid' = GridError
                 /\ ev' = Ev("loadProducts_done", i, 0, {"error:load_products"}, k.reqs, <<>>)
                 /\ UNCHANGED filteredProducts
            [] resp.st = "ok_string" ->
                 /\ currentProducts' = NonArr("string")
                 /\ filteredProducts' = Junk
                 /\ grid' = ProductGrid(Junk)
                 /\ ev' = Ev("loadProducts_done", i, 0, {}, k.reqs, <<>>)
            [] OTHER ->
                 /\ currentProducts' = Arr(list)
                 /\ filteredProducts' = list
                 /\ grid' = ProductGrid(list)
                 /\ ev' = Ev("loadProducts_done", i, 0, {}, k.reqs, <<>>)
    /\ tasks' = [tasks EXCEPT ![i] = AfterProducts(tasks[i]).t]
    /\ UNCHANGED <<srv, currentScripts, view, filter, modal, section, page>>

\* ------------------------------------------------------------- navigation
Sections == {"overview", "products", "scripts"}

\* loadSectionData(target) up to its first await
SectionLoader(target) ==
    CASE target = "overview" -> [NewTask("nav", 0) EXCEPT !.pc = "stats"]
      [] target = "products" -> [NewTask("loadProducts", 0) EXCEPT !.pc = "products"]
      [] OTHER -> [NewTask("nav", 0) EXCEPT !.pc = "options"]

\* click on a navigation item: every click listener of the item runs; each shows the
\* section and calls loadSectionData, which starts its loader
Navigate(target) ==
    /\ UserActs /\ Cardinality(FreeSlots) >= navListeners
    /\ section' = target
    /\ grid' = IF target = "products" THEN GridLoading ELSE grid
    /\ tasks' = [i \in Slots |->
                    IF i \in Lowest(navListeners) THEN SectionLoader(target) ELSE tasks[i]]
    /\ ev' = Ev("navigate", 0, 0, {},
                {Req("GET", IF target = "overview" THEN "stats" ELSE "products", 0)}, <<>>)
    /\ UNCHANGED <<srv, currentScripts, view, filter, modal,
                   currentProducts, filteredProducts, page>>

\* loadProductsForScriptsFilter after its fetch settled: the options of the filter are
\* rebuilt; the selection survives when its product is still listed, and is lost when
\* the request failed
OptionsResp(i) ==
    /\ tasks[i].pc = "options" /\ tasks[i].resp.st \notin {"pending", "none"}
    /\ LET ok == tasks[i].resp.st = "ok"
       IN /\ filter' = IF ok THEN filter ELSE ""
          /\ ev' = Ev("options_done", i, 0,
                      IF ok THEN {} ELSE {"error:load_filter"}, {}, <<>>)
    /\ tasks' = [tasks EXCEPT ![i] = Idle]
    /\ UNCHANGED <<srv, currentScripts, view, modal, shop>>

\* ------------------------------------------------------- refreshDashboard
\* the loaders initializeDashboard runs side by side
Loaders == <<"stats", "products", "personas">>
Done == [st |-> "done", body |-> <<>>]

\* refreshDashboard up to its first await: initializeDashboard runs setupNavigation, which
\* puts one more click listener on every navigation item, and starts the three loaders
RefreshDashboard ==
    /\ UserActs /\ HasFree
    /\ navListeners <= MaxRefresh
    /\ navListeners' = navListeners + 1
    /\ grid' = GridLoading
    /\ tasks' = [tasks EXCEPT ![FreeSlot] =
                    [NewTask("refresh", 0) EXCEPT !.pc = "init", !.resp = NoResp,
                                                  !.parts = [p \in DOMAIN Loaders |-> Pending]]]
    /\ ev' = Ev("refreshDashboard", 0, 0, {},
                {Req("GET", Loaders[p], 0) : p \in DOMAIN Loaders}, <<>>)
    /\ UNCHANGED <<srv, currentScripts, view, filter, modal, section, currentProducts,
                   filteredProducts, voicePersonas, errorListeners, deleted>>

\* the backend answers the request of one loader of initializeDashboard
ServeInit(i, p) ==
    /\ tasks[i].pc = "init"
    /\ p \in DOMAIN tasks[i].parts /\ tasks[i].parts[p].st = "pending"
    /\ \E o \in Outcomes :
        tasks' = [tasks EXCEPT ![i].parts[p] =
                    [st |-> o,
                     body |-> CASE o = "ok" /\ Loaders[p] = "products" -> Catalogue
                                [] o = "ok" /\ Loaders[p] = "personas" -> DefaultPersonas
                                [] OTHER -> <<>>]]
    /\ ev' = Ev("backend", 0, 0, {}, {}, <<>>)
    /\ UNCHANGED <<srv, currentScripts, view, filter, modal, shop>>

\* one loader of initializeDashboard after its fetch settled: loadDashboardStats,
\* loadProducts or loadPersonas
InitPart(i, p) ==
    /\ tasks[i].pc = "init"
    /\ p \in DOMAIN tasks[i].parts /\ tasks[i].parts[p].st \in Outcomes
    /\ LET part == tasks[i].parts[p]
           ok == part.st = "ok"
       IN CASE Loaders[p] = "stats" ->
                 /\ ev' = Ev("stats_done", i, 0, IF ok THEN {} ELSE {"error:stats"}, {}, <<>>)
                 /\ UNCHANGED <<currentProducts, filteredProducts, grid, voicePersonas>>
            [] Loaders[p] = "products" ->
                 /\ currentProducts' = IF ok THEN Arr(part.body) ELSE currentProducts
                 /\ filteredProducts' = IF ok THEN part.body ELSE filteredProducts
                 /\ grid' = IF ok THEN ProductGrid(part.body) ELSE GridError
                 /\ ev' = Ev("loadProducts_done", i, 0,
                             IF ok THEN {} ELSE {"error:load_products"}, {}, <<>>)
                 /\ UNCHANGED voicePersonas
            [] OTHER ->
                 /\ voicePersonas' = IF ok THEN part.body ELSE voicePersonas
                 /\ ev' = Ev("loadPersonas_done", i, 0, {}, {}, <<>>)
                 /\ UNCHANGED <<currentProducts, filteredProducts, grid>>
    /\ tasks' = [tasks EXCEPT ![i].parts[p] = Done]
    /\ UNCHANGED <<srv, currentScripts, view, filter, modal, section, navListeners,
                   errorListeners, deleted>>

\* initializeDashboard after Promise.all settled: one more error listener on the window;
\* refreshDashboard then shows its success alert
InitDone(i) ==
    /\ tasks[i].pc = "init"
    /\ \A p \in DOMAIN tasks[i].parts : tasks[i].parts[p] = Done
    /\ errorListeners' = errorListeners + 1
    /\ tasks' = [tasks EXCEPT ![i] = Idle]
    /\ ev' = Ev("refreshDashboard_done", i, 0, {"success:refreshed"}, {}, <<>>)
    /\ UNCHANGED <<srv, currentScripts, view, filter, modal, section, currentProducts,
                   filteredProducts, grid, voicePersonas, navListeners, deleted>>

\* ------------------------------------------------------------- editScript
\* faulty variants of EditCheck: one forgets the has_mp3 check, one the can_edit check
EditCheck_NoMp3Check(resp) ==
    CASE resp.st # "ok" -> "error:edit_load"
      [] resp.body[1].can_edit = FALSE -> "warning:edit_locked"
      [] OTHER -> "form"
EditCheck_NoCanEditCheck(resp) ==
    CASE resp.st # "ok" -> "error:edit_load"
      [] resp.body[1].has_mp3 = TRUE -> "warning:edit_has_mp3"
      [] OTHER -> "form"

\* what editScript does with the settled fetch: the catch block, the two checks on
\* the freshly fetched script in the order of the code, or the form
EditCheck(resp) ==
    CASE resp.st # "ok" -> "error:edit_load"
      [] resp.body[1].has_mp3 = TRUE -> "warning:edit_has_mp3"
      [] resp.body[1].can_edit = FALSE -> "warning:edit_locked"
      [] OTHER -> "form"

\* click on Edit Script: the script is fetched, whatever the cache says
EditScript(s) ==
    /\ UserActs
    /\ OffersEdit(s)
    /\ HasFree
    /\ tasks' = [tasks EXCEPT ![FreeSlot] = NewTask("edit", s)]
    /\ ev' = Ev("editScript", FreeSlot, s, {}, {Req("GET", "script", s)}, <<>>)
    /\ UNCHANGED <<srv, currentScripts, view, filter, modal, shop>>

\* editScript after its fetch settled
EditResp(i) ==
    /\ tasks[i].op = "edit" /\ tasks[i].resp.st \notin {"pending", "none"}
    /\ LET t == tasks[i]
           c == EditCheck(t.resp)
       IN /\ modal' = IF c = "form" THEN EditModal(t.id) ELSE modal
          /\ ev' = Ev("editScript_done", i, t.id, IF c = "form" THEN {} ELSE {c}, {}, <<>>)
    /\ tasks' = [tasks EXCEPT ![i] = Idle]
    /\ UNCHANGED <<srv, currentScripts, view, filter, shop>>

\* click on Save in the edit form; the user answers the confirm() dialog
ConfirmUpdateScript(s, accept) ==
    /\ UserActs
    /\ modal.kind = "edit" /\ modal.id = s
    /\ IF Confirmed(accept)
       THEN /\ HasFree
            /\ tasks' = [tasks EXCEPT ![FreeSlot] = NewTask("put", s)]
            /\ ev' = Asked(Ev("confirmUpdateScript", FreeSlot, s, {},
                              {Req("PUT", "script", s)}, <<>>), accept)
       ELSE /\ tasks' = tasks
            /\ ev' = Asked(Ev("confirmUpdateScript", 0, s, {}, {}, <<>>), accept)
    /\ UNCHANGED <<srv, currentScripts, view, filter, modal, shop>>

\* confirmUpdateScript after the PUT settled
PutResp(i) ==
    /\ tasks[i].op = "put" /\ tasks[i].pc = "wait"
    /\ tasks[i].resp.st \notin {"pending", "none"}
    /\ LET t == tasks[i]
           r == LoadCall(t, filter)
       IN IF t.resp.st = "ok"
          THEN /\ modal' = NoModal
               /\ view' = r.view
               /\ tasks' = [tasks EXCEPT ![i] = r.t]
               /\ ev' = Ev("confirmUpdateScript_done", i, t.id, {"success:script_saved"},
                           r.reqs, <<>>)
          ELSE /\ tasks' = [tasks EXCEPT ![i] = Idle]
               /\ ev' = Ev("confirmUpdateScript_done", i, t.id, {"error:script_save"},
                           {}, <<>>)
               /\ UNCHANGED <<modal, view>>
    /\ UNCHANGED <<srv, currentScripts, filter, shop>>

\* Cancel, the close button or a click on the overlay
CloseModal ==
    /\ UserActs
    /\ modal # NoModal
    /\ modal' = NoModal
    /\ ev' = Ev("closeModal", 0, 0, {}, {}, <<>>)
    /\ UNCHANGED <<srv, currentScripts, view, filter, tasks, shop>>

\* -------------------------------------------------------------- deleteMP3
\* faulty variant of Unlock: the cache is left as it was
Unlock_Skipped(cs, s) == cs

\* the optimistic update of the cache entry
Unlock(cs, s) ==
    IF findIndex(cs, s) # 0
    THEN [cs EXCEPT ![findIndex(cs, s)].has_mp3 = FALSE, ![findIndex(cs, s)].can_edit = TRUE]
    ELSE cs

\* click on Delete MP3; the user answers the confirm() dialog
DeleteMP3(s, accept) ==
    /\ UserActs
    /\ OffersDeleteMP3(s)
    /\ IF Confirmed(accept)
       THEN /\ HasFree
            /\ tasks' = [tasks EXCEPT ![FreeSlot] = NewTask("del", s)]
            /\ ev' = Asked(Ev("deleteMP3", FreeSlot, s, {}, {Req("DELETE", "mp3", s)}, <<>>),
                           accept)
       ELSE /\ tasks' = tasks
            /\ ev' = Asked(Ev("deleteMP3", 0, s, {}, {}, <<>>), accept)
    /\ UNCHANGED <<srv, currentScripts, view, filter, modal, shop>>

\* faulty variant of Deleted: a non-OK answer counts as a deletion
Deleted_UnlessRejected(resp) == resp.st # "reject"

\* `if (response.ok)` on the answer to DELETE /scripts/{id}/mp3
Deleted(resp) == resp.st = "ok"

\* deleteMP3 after the DELETE settled
DeleteResp(i) ==
    /\ tasks[i].op = "del" /\ tasks[i].pc = "wait"
    /\ tasks[i].resp.st \notin {"pending", "none"}
    /\ LET t == tasks[i]
       IN IF Deleted(t.resp)
          THEN /\ currentScripts' = Unlock(currentScripts, t.id)
               /\ tasks' = [tasks EXCEPT ![i] = [t EXCEPT !.pc = "timer", !.resp = NoResp]]
               /\ ev' = Ev("deleteMP3_done", i, t.id, {"success:mp3_deleted"}, {},
                           <<reloadDelay>>)
          ELSE /\ currentScripts' = currentScripts
               /\ tasks' = [tasks EXCEPT ![i] = Idle]
               /\ ev' = Ev("deleteMP3_done", i, t.id, {"error:mp3_delete"}, {}, <<>>)
    /\ UNCHANGED <<srv, view, filter, modal, shop>>

\* the timer of deleteMP3 fires: the forced reload
ReloadTimer(i) ==
    /\ tasks[i].op = "del" /\ tasks[i].pc = "timer"
    /\ LET r == LoadCall(tasks[i], filter)
       IN /\ view' = r.view
          /\ tasks' = [tasks EXCEPT ![i] = r.t]
          /\ ev' = Ev("reloadTimer", i, tasks[i].id, {}, r.reqs, <<>>)
    /\ UNCHANGED <<srv, currentScripts, filter, modal, shop>>

\* ------------------------------------------- deleteScript, deleteProduct
\* click on Delete Script, which every card offers
DeleteScript(s, accept) ==
    /\ UserActs
    /\ \E k \in 1..Len(view.cards) : view.cards[k].id = s
    /\ IF Confirmed(accept)
       THEN /\ HasFree
            /\ tasks' = [tasks EXCEPT ![FreeSlot] = NewTask("delscript", s)]
            /\ ev' = Asked(Ev("deleteScript", FreeSlot, s, {}, {Req("DELETE", "script", s)},
                              <<>>), accept)
       ELSE /\ tasks' = tasks
            /\ ev' = Asked(Ev("deleteScript", 0, s, {}, {}, <<>>), accept)
    /\ UNCHANGED <<srv, currentScripts, view, filter, modal, shop>>

\* deleteScript after the DELETE settled: on OK loadScripts, then loadDashboardStats
DeleteScriptResp(i) ==
    /\ tasks[i].op = "delscript" /\ tasks[i].pc = "wait"
    /\ tasks[i].resp.st \notin {"pending", "none"}
    /\ LET t == tasks[i]
           r == LoadCall(t, filter)
       IN IF t.resp.st = "ok"
          THEN /\ view' = r.view
               /\ tasks' = [tasks EXCEPT ![i] = r.t]
               /\ ev' = Ev("deleteScript_done", i, t.id, {"success:script_deleted"},
                           r.reqs, <<>>)
          ELSE /\ tasks' = [tasks EXCEPT ![i] = Idle]
               /\ ev' = Ev("deleteScript_done", i, t.id, {"error:script_delete"}, {}, <<>>)
               /\ view' = view
    /\ UNCHANGED <<srv, currentScripts, filter, modal, shop>>

\* click on the delete button of a product card
DeleteProduct(p, accept) ==
    /\ UserActs
    /\ \E k \in 1..Len(grid.cards) : grid.cards[k].id = p
    /\ IF Confirmed(accept)
       THEN /\ HasFree
            /\ tasks' = [tasks EXCEPT ![FreeSlot] = NewTask("delproduct", p)]
            /\ ev' = Asked(Ev("deleteProduct", FreeSlot, p, {}, {Req("DELETE", "product", p)},
                              <<>>), accept)
       ELSE /\ tasks' = tasks
            /\ ev' = Asked(Ev("deleteProduct", 0, p, {}, {}, <<>>), accept)
    /\ UNCHANGED <<srv, currentScripts, view, filter, modal, shop>>

\* deleteProduct after the DELETE settled: on OK loadProducts, then loadDashboardStats
DeleteProductResp(i) ==
    /\ tasks[i].op = "delproduct" /\ tasks[i].pc = "wait"
    /\ tasks[i].resp.st \notin {"pending", "none"}
    /\ LET t == tasks[i]
       IN IF t.resp.st = "ok"
          THEN /\ grid' = GridLoading
               /\ tasks' = [tasks EXCEPT ![i] = [t EXCEPT !.pc = "products", !.resp = Pending]]
               /\ ev' = Ev("deleteProduct_done", i, t.id, {"success:product_deleted"},
                           {Req("GET", "products", 0)}, <<>>)
          ELSE /\ grid' = grid
               /\ tasks' = [tasks EXCEPT ![i] = Idle]
               /\ ev' = Ev("deleteProduct_done", i, t.id, {"error:product_delete"}, {}, <<>>)
    /\ UNCHANGED <<srv, currentScripts, view, filter, modal, section, currentProducts,
                   filteredProducts, page>>

\* ------------------------------------------------- single MP3 generation
\* click on Create MP3: the TTS providers are fetched for the dialog
GenerateMP3ForScript(s) ==
    /\ UserActs /\ Chains < MaxChains
    /\ OffersEdit(s)
    /\ IF findIndex(currentScripts, s) = 0
       THEN /\ tasks' = tasks
            /\ ev' = Ev("generateMP3ForScript", 0, s, {"error:script_not_found"}, {}, <<>>)
       ELSE IF voicePersonas = <<>>
       THEN /\ tasks' = tasks
            /\ ev' = Ev("generateMP3ForScript", 0, s, {"error:no_personas"}, {}, <<>>)
       ELSE /\ HasFree
            /\ tasks' = [tasks EXCEPT ![FreeSlot] = [NewTask("gen", s) EXCEPT !.pc = "providers"]]
            /\ ev' = Ev("generateMP3ForScript", FreeSlot, s, {}, {Req("GET", "providers", 0)}, <<>>)
    /\ UNCHANGED <<srv, currentScripts, view, filter, modal, shop>>

\* generateMP3ForScript after the providers fetch settled: the enhanced dialog, or the
\* basic one (generateMP3ForScriptFallback) when the fetch or its body failed
ProvidersResp(i) ==
    /\ tasks[i].op = "gen" /\ tasks[i].pc = "providers"
    /\ tasks[i].resp.st \notin {"pending", "none"}
    /\ LET t == tasks[i]
       IN IF t.resp.st = "reject"
          THEN /\ modal' = IF findIndex(currentScripts, t.id) # 0
                           THEN BasicModal(t.id, voicePersonas) ELSE modal
               /\ ev' = Ev("generateMP3ForScript_done", i, t.id, {"warning:basic_mode"}, {}, <<>>)
          ELSE /\ modal' = EnhancedModal(t.id, t.resp.body, voicePersonas)
               /\ ev' = Ev("generateMP3ForScript_done", i, t.id, {}, {}, <<>>)
    /\ tasks' = [tasks EXCEPT ![i] = Idle]
    /\ UNCHANGED <<srv, currentScripts, view, filter, shop>>

\* click on Generate in either dialog: confirmEnhancedMP3Generation / confirmBasicMP3Generation
ConfirmMP3Generation(s) ==
    /\ UserActs
    /\ modal.kind \in {"mp3", "mp3basic"} /\ modal.id = s
    /\ HasFree /\ Chains < MaxChains
    /\ modal' = NoModal
    /\ tasks' = [tasks EXCEPT ![ChainSlot] = NewTask("gen", s)]
    /\ ev' = Ev("confirmMP3Generation", ChainSlot, s, {"info:generating"},
                {Post(s, modal.voice)}, <<>>)
    /\ UNCHANGED <<srv, currentScripts, view, filter, shop>>

\* faulty variant of CapReached: one attempt too many
CapReached_Late(attempts) == attempts > maxAttempts

\* the attempt cap of pollMP3Generation
CapReached(attempts) == attempts >= maxAttempts

\* pollMP3Generation(scriptId, attempts) up to its first await
PollCall(t) ==
    IF CapReached(t.attempts)
    THEN [t |-> Idle, op |-> "poll_timeout", alerts |-> {"warning:poll_timeout"}, reqs |-> {}]
    ELSE [t |-> [t EXCEPT !.op = "poll", !.pc = "wait", !.resp = Pending, !.gets = @ + 1],
          op |-> "poll_fetch", alerts |-> {}, reqs |-> {Req("GET", "script", t.id)}]

\* faulty variant of Accepted: any answer will do
Accepted_AnyAnswer(resp) == resp.st # "reject"

\* `if (response.ok)` on the answer to POST /mp3/generate
Accepted(resp) == resp.st = "ok"

\* confirm...MP3Generation after the POST settled: on OK the poll chain starts
GenerateResp(i) ==
    /\ tasks[i].op = "gen" /\ tasks[i].pc = "wait"
    /\ tasks[i].resp.st \notin {"pending", "none"}
    /\ LET t == tasks[i]
           r == PollCall([t EXCEPT !.resp = NoResp])
       IN IF Accepted(t.resp)
          THEN /\ tasks' = [tasks EXCEPT ![i] = r.t]
               /\ ev' = Ev("confirmMP3Generation_done", i, t.id,
                           {"success:generation_started"} \cup r.alerts, r.reqs, <<>>)
          ELSE /\ tasks' = [tasks EXCEPT ![i] = Idle]
               /\ ev' = Ev("confirmMP3Generation_done", i, t.id, {"error:generate"}, {}, <<>>)
    /\ UNCHANGED <<srv, currentScripts, view, filter, modal, shop>>

\* faulty variants of PollRetry: the round is not counted, or counted twice
PollRetry_NotCounted(t) == [t EXCEPT !.pc = "timer", !.resp = NoResp]
PollRetry_CountedTwice(t) == [t EXCEPT !.pc = "timer", !.resp = NoResp, !.attempts = @ + 2]

\* setTimeout(() => pollMP3Generation(scriptId, attempts + 1), 1000)
PollRetry(t) == [t EXCEPT !.pc = "timer", !.resp = NoResp, !.attempts = @ + 1]

\* pollMP3Generation after its fetch settled: complete, not ready (non-OK response or
\* has_mp3 false), or the catch block (rejected fetch, unparsable body)
PollResp(i) ==
    /\ tasks[i].op = "poll" /\ tasks[i].pc = "wait"
    /\ tasks[i].resp.st \notin {"pending", "none"}
    /\ LET t == tasks[i]
           ready == t.resp.st = "ok" /\ t.resp.body[1].has_mp3
           r == LoadCall([t EXCEPT !.attempts = 0, !.gets = 0, !.log = Append(@, "complete")],
                         filter)
       IN IF ready
          THEN /\ view' = r.view
               /\ tasks' = [tasks EXCEPT ![i] = r.t]
               /\ ev' = Ev("poll_complete", i, t.id, {"success:mp3_complete"}, r.reqs, <<>>)
          ELSE /\ view' = view
               /\ tasks' = [tasks EXCEPT ![i] = PollRetry(t)]
               /\ ev' = Ev(IF t.resp.st = "reject" THEN "poll_caught" ELSE "poll_retry",
                           i, t.id, {}, {}, <<pollDelay>>)
    /\ UNCHANGED <<srv, currentScripts, filter, modal, shop>>

\* the timer of a single poll chain fires: pollMP3Generation(scriptId, attempts + 1)
PollTimer(i) ==
    /\ tasks[i].op = "poll" /\ tasks[i].pc = "timer"
    /\ Quiet => Alone(i)
    /\ LET r == PollCall(tasks[i])
       IN /\ tasks' = [tasks EXCEPT ![i] = r.t]
          /\ ev' = Ev(r.op, i, tasks[i].id, r.alerts, r.reqs, <<>>)
    /\ UNCHANGED <<srv, currentScripts, view, filter, modal, shop>>

\* --------------------------------------------------- bulk MP3 generation
\* click on Bulk MP3: the dialog lists the cached scripts without MP3, all checked
ShowBulkMP3GenerationModal ==
    /\ UserActs /\ Chains < MaxChains
    /\ OffersBulk
    /\ LET rows == Rows(currentScripts)
       IN IF rows = <<>>
          THEN /\ modal' = modal
               /\ ev' = Ev("showBulkMP3GenerationModal", 0, 0, {"warning:no_scripts"}, {}, <<>>)
          ELSE IF voicePersonas = <<>>
          THEN /\ modal' = modal
               /\ ev' = Ev("showBulkMP3GenerationModal", 0, 0, {"error:no_personas"}, {}, <<>>)
          ELSE /\ modal' = BulkModal(rows, voicePersonas)
               /\ ev' = Ev("showBulkMP3GenerationModal", 0, 0, {}, {}, <<>>)
    /\ UNCHANGED <<srv, currentScripts, view, filter, tasks, shop>>

\* faulty variant of toggleAllScripts: the boxes are flipped instead of set
toggleAllScripts_Flips(rows, checked) ==
    [k \in 1..Len(rows) |-> [rows[k] EXCEPT !.checked = ~@]]

\* toggleAllScripts(checked)
toggleAllScripts(rows, checked) ==
    [k \in 1..Len(rows) |-> [rows[k] EXCEPT !.checked = checked]]

\* click on Select All (checked) or Deselect All
ToggleAllScripts(checked) ==
    /\ UserActs
    /\ modal.kind = "bulk"
    /\ modal' = WithRows(modal, toggleAllScripts(modal.rows, checked))
    /\ ev' = Ev(IF checked THEN "selectAll" ELSE "deselectAll", 0, 0, {}, {}, <<>>)
    /\ UNCHANGED <<srv, currentScripts, view, filter, tasks, shop>>

\* click on the checkbox of row k
ToggleScript(k) ==
    /\ UserActs
    /\ modal.kind = "bulk" /\ k \in 1..Len(modal.rows)
    /\ modal' = WithRows(modal, [modal.rows EXCEPT ![k].checked = ~@])
    /\ ev' = Ev("toggleScript", 0, modal.rows[k].id, {}, {}, <<>>)
    /\ UNCHANGED <<srv, currentScripts, view, filter, tasks, shop>>

\* faulty variant of NothingToGenerate: only the voice is looked at
NothingToGenerate_VoiceOnly(m) == m.voice = 0

\* `!selectedScriptIds.length || !voicePersonaId`
NothingToGenerate(m) == m.ids = {} \/ m.voice = 0

\* click on Generate All
ConfirmBulkMP3Generation ==
    /\ UserActs
    /\ modal.kind = "bulk"
    /\ IF NothingToGenerate(modal)
       THEN /\ UNCHANGED <<modal, tasks>>
            /\ ev' = Ev("confirmBulkMP3Generation", 0, 0, {"error:select_scripts"}, {}, <<>>)
       ELSE /\ HasFree /\ Chains < MaxChains
            /\ modal' = NoModal
            /\ tasks' = [tasks EXCEPT ![ChainSlot] =
                            [NewTask("bulkgen", 0) EXCEPT !.ids = modal.ids,
                                                          !.sent = Selected(modal.rows)]]
            /\ ev' = Ev("confirmBulkMP3Generation", ChainSlot, 0, {"info:bulk_generating"},
                        {Post(0, modal.voice)}, <<>>)
    /\ UNCHANGED <<srv, currentScripts, view, filter, shop>>

\* faulty variant of BulkCapReached: one round too many
BulkCapReached_Late(attempts) == attempts > bulkMaxAttempts

\* the attempt cap of pollBulkMP3Generation
BulkCapReached(attempts) == attempts >= bulkMaxAttempts

\* pollBulkMP3Generation(scriptIds, attempts) up to its first await: one GET per id
BulkCall(t) ==
    IF BulkCapReached(t.attempts)
    THEN [t |-> Idle, op |-> "bulk_timeout", alerts |-> {"warning:bulk_timeout"}, reqs |-> {}]
    ELSE [t |-> [t EXCEPT !.op = "bulk", !.pc = "wait", !.resp = NoResp,
                          !.got = [s \in ScriptIds |-> IF s \in t.ids THEN "pending" ELSE "none"],
                          !.gets = @ + Cardinality(t.ids)],
          op |-> "bulk_fetch", alerts |-> {},
          reqs |-> {Req("GET", "script", s) : s \in t.ids}]

\* confirmBulkMP3Generation after the POST settled: on OK the bulk chain starts
BulkGenerateResp(i) ==
    /\ tasks[i].op = "bulkgen" /\ tasks[i].resp.st \notin {"pending", "none"}
    /\ LET t == tasks[i]
           r == BulkCall(t)
       IN IF Accepted(t.resp)
          THEN /\ tasks' = [tasks EXCEPT ![i] = r.t]
               /\ ev' = Ev("confirmBulkMP3Generation_done", i, 0,
                           {"success:bulk_started"} \cup r.alerts, r.reqs, <<>>)
          ELSE /\ tasks' = [tasks EXCEPT ![i] = Idle]
               /\ ev' = Ev("confirmBulkMP3Generation_done", i, 0, {"error:bulk_generate"}, {}, <<>>)
    /\ UNCHANGED <<srv, currentScripts, view, filter, modal, shop>>

\* faulty variant of CompletedCount: every answered script counts
CompletedCount_AnyAnswer(t) == Cardinality({s \in t.ids : t.got[s] \in {"yes", "no"}})

\* scripts.filter(s => s.has_mp3).length over the responses of one round
CompletedCount(t) == Cardinality({s \in t.ids : t.got[s] = "yes"})

\* setTimeout(() => pollBulkMP3Generation(scriptIds, attempts + 1), 2000); count keeps
\* the completedCount the chain computed last
BulkRetry(t, failed) ==
    [t EXCEPT !.pc = "timer", !.got = NoGot, !.attempts = @ + 1,
              !.count = IF failed THEN @ ELSE CompletedCount(t)]

\* pollBulkMP3Generation after Promise.all settled: a rejected fetch (or an unparsable
\* body) rejects the whole round at once; otherwise every response is in
BulkResp(i) ==
    /\ tasks[i].op = "bulk" /\ tasks[i].pc = "wait"
    /\ LET t == tasks[i]
           failed == \E s \in t.ids : t.got[s] = "reject"
           c == CompletedCount(t)
           r == LoadCall([t EXCEPT !.got = NoGot, !.attempts = 0, !.gets = 0, !.count = 0,
                                   !.log = Append(@, "complete")], filter)
       IN /\ failed \/ \A s \in t.ids : t.got[s] # "pending"
          /\ IF ~failed /\ c = Cardinality(t.ids)
             THEN /\ view' = r.view
                  /\ tasks' = [tasks EXCEPT ![i] = r.t]
                  /\ ev' = Ev("bulk_complete", i, 0, {"success:bulk_complete"}, r.reqs, <<>>)
             ELSE /\ view' = view
                  /\ tasks' = [tasks EXCEPT ![i] = BulkRetry(t, failed)]
                  /\ ev' = Ev(IF failed THEN "bulk_caught" ELSE "bulk_retry", i, 0,
                              IF ~failed /\ c > 0 THEN {"info:progress"} ELSE {},
                              {}, <<bulkPollDelay>>)
    /\ UNCHANGED <<srv, currentScripts, filter, modal, shop>>

\* the timer of a bulk chain fires: pollBulkMP3Generation(scriptIds, attempts + 1)
BulkTimer(i) ==
    /\ tasks[i].op = "bulk" /\ tasks[i].pc = "timer"
    /\ Quiet => Alone(i)
    /\ LET r == BulkCall(tasks[i])
       IN /\ tasks' = [tasks EXCEPT ![i] = r.t]
          /\ ev' = Ev(r.op, i, 0, r.alerts, r.reqs, <<>>)
    /\ UNCHANGED <<srv, currentScripts, view, filter, modal, shop>>

\* ------------------------------------------------------- specifications
BackendStep ==
    \/ \E i \in Slots : Serve(i)
    \/ \E s \in ScriptIds : JobComplete(s)
LoadStep ==
    \/ \E f \in FilterValues : LoadScripts(f)
    \/ \E i \in Slots : LoadResp(i)
ListStep ==
    \/ \E f \in FilterValues \ {""} : LoadScripts(f)
    \/ \E i \in Slots : LoadResp(i)
DeleteStep ==
    \/ \E s \in ScriptIds, accept \in BOOLEAN : DeleteMP3(s, accept)
    \/ \E i \in Slots : DeleteResp(i)
    \/ \E i \in Slots : ReloadTimer(i)
EditStep ==
    \/ \E s \in ScriptIds : EditScript(s)
    \/ \E i \in Slots : EditResp(i)
    \/ \E s \in ScriptIds, accept \in BOOLEAN : ConfirmUpdateScript(s, accept)
    \/ \E i \in Slots : PutResp(i)
    \/ CloseModal
PollStep ==
    \/ \E s \in ScriptIds : GenerateMP3ForScript(s)
    \/ \E i \in Slots : ProvidersResp(i)
    \/ \E s \in ScriptIds : ConfirmMP3Generation(s)
    \/ \E i \in Slots : GenerateResp(i)
    \/ \E i \in Slots : PollResp(i)
    \/ \E i \in Slots : PollTimer(i)
    \/ \E i \in Slots : StatsResp(i)
BulkStep ==
    \/ ShowBulkMP3GenerationModal
    \/ ConfirmBulkMP3Generation
    \/ \E i \in Slots : BulkGenerateResp(i)
    \/ \E i \in Slots, s \in ScriptIds : ServeBulk(i, s)
    \/ \E i \in Slots : BulkResp(i)
    \/ \E i \in Slots : BulkTimer(i)
    \/ \E i \in Slots : StatsResp(i)

\* editing and MP3 deletion of one script while MP3 jobs started earlier finish
Init == InitPage(OneScript, {Draft, Generating, Locked, Frozen})
Next == BackendStep \/ LoadStep \/ EditStep \/ DeleteStep
Spec == Init /\ [][Next]_vars

\* bulk MP3 generation of a batch of scripts and its poll chain
InitBulk == InitPage(NumScripts, {Draft})
NextBulk == BackendStep \/ ListStep \/ BulkStep
SpecBulk == InitBulk /\ [][NextBulk]_vars

\* the same, with MP3 deletion; the user starts a reload of the list or a deletion only
\* when no other reload or deletion is under way
OneAtATime == \A j \in Slots : tasks[j].op \notin {"load", "del"}
NextBulkDelete ==
    \/ BackendStep \/ BulkStep
    \/ \E i \in Slots : LoadResp(i)
    \/ \E i \in Slots : DeleteResp(i)
    \/ \E i \in Slots : ReloadTimer(i)
    \/ OneAtATime /\ \E f \in FilterValues \ {""} : LoadScripts(f)
    \/ OneAtATime /\ \E s \in ScriptIds, accept \in BOOLEAN : DeleteMP3(s, accept)
SpecBulkDelete == InitBulk /\ [][NextBulkDelete]_vars

\* both kinds of poll chain on one script, with MP3 deletion
InitChains == InitPage(OneScript, {Draft, Locked})
NextChains == BackendStep \/ ListStep \/ PollStep \/ BulkStep \/ DeleteStep
\* the three loaders, one call at a time, against a backend whose data does not change
AllIdle == \A j \in Slots : tasks[j] = Idle
InitLoaders == InitPage(NumScripts, {Draft, Locked})
NextLoaders ==
    \/ \E i \in Slots : Serve(i) \/ ServeOdd(i)
    \/ \E i \in Slots, p \in 1..NumProducts : ServePart(i, p)
    \/ \E i \in Slots : LoadResp(i) \/ AllProductsResp(i) \/ AllResp(i) \/ ProductsResp(i)
    \/ AllIdle /\ \E f \in AllFilterValues : LoadScripts(f)
    \/ AllIdle /\ LoadProducts
SpecLoaders == InitLoaders /\ [][NextLoaders]_vars

\* a poll chain of either kind on one script while the user changes section, changes
\* the filter and closes dialogs. The user starts a generation on the page as it was
\* first shown and disturbs the page during the last rounds of the chain, one action
\* at a time, leaving the overview once; timers fire and every request is answered.
Calm == \A j \in Slots : tasks[j].op \in {"idle", "poll", "bulk"}
Untouched == section = "overview" /\ grid.kind = "initial"
Running(i) == tasks[i].op \in {"poll", "bulk"} /\ tasks[i].pc \in {"wait", "timer"}
Late ==
    \E i \in Slots :
        /\ Running(i)
        /\ tasks[i].attempts + BusyRounds >=
               (IF tasks[i].op = "poll" THEN maxAttempts ELSE bulkMaxAttempts)
InitNav == InitPage(OneScript, {Draft})
NextNav ==
    \/ BackendStep
    \/ Untouched /\ \E s \in ScriptIds : GenerateMP3ForScript(s)
    \/ Untouched /\ ShowBulkMP3GenerationModal
    \/ \E s \in ScriptIds : ConfirmMP3Generation(s)
    \/ ConfirmBulkMP3Generation
    \/ \E i \in Slots : ProvidersResp(i) \/ GenerateResp(i) \/ BulkGenerateResp(i)
    \/ \E i \in Slots : PollResp(i) \/ PollTimer(i) \/ BulkResp(i) \/ BulkTimer(i)
    \/ \E i \in Slots, s \in ScriptIds : ServeBulk(i, s)
    \/ \E i \in Slots : LoadResp(i) \/ StatsResp(i) \/ ProductsResp(i) \/ OptionsResp(i)
    \/ Calm /\ Late /\ section = "overview" /\ \E target \in Sections : Navigate(target)
    \/ Calm /\ (Late \/ view.kind = "initial") /\ \E f \in FilterValues : LoadScripts(f)
    \/ Late /\ CloseModal
TaskStep(i) ==
    \/ Serve(i) \/ \E s \in ScriptIds : ServeBulk(i, s)
    \/ ProvidersResp(i) \/ GenerateResp(i) \/ BulkGenerateResp(i)
    \/ PollResp(i) \/ PollTimer(i) \/ BulkResp(i) \/ BulkTimer(i)
    \/ LoadResp(i) \/ StatsResp(i) \/ ProductsResp(i) \/ OptionsResp(i)
Settles == \A i \in Slots : WF_vars(TaskStep(i))
SpecNav == InitNav /\ [][NextNav]_vars /\ Settles

\* choosing the scripts of a bulk generation in the dialog, and the chain that follows
SelectStep ==
    \/ \E checked \in BOOLEAN : ToggleAllScripts(checked)
    \/ \E k \in 1..NumScripts : ToggleScript(k)
    \/ CloseModal
InitSelect == InitPage(NumScripts, {Draft, Locked})
NextSelect == BackendStep \/ ListStep \/ BulkStep \/ SelectStep
SpecSelect == InitSelect /\ [][NextSelect]_vars

SpecChains == InitChains /\ [][NextChains]_vars

\* navigation between the sections and refreshes of the dashboard
InitRefresh == InitPage(OneScript, {Draft})
NextRefresh ==
    \/ \E i \in Slots : Serve(i)
    \/ \E i \in Slots, p \in DOMAIN Loaders : ServeInit(i, p)
    \/ \E i \in Slots, p \in DOMAIN Loaders : InitPart(i, p)
    \/ \E i \in Slots : InitDone(i)
    \/ \E i \in Slots : StatsResp(i) \/ ProductsResp(i) \/ OptionsResp(i)
    \/ RefreshDashboard
    \/ \E target \in Sections : Navigate(target)
SpecRefresh == InitRefresh /\ [][NextRefresh]_vars

\* the four handlers that ask for confirmation; the user starts an operation when no
\* other is under way
InitConfirm == InitPage(NumScripts, {Draft, Locked})
NextConfirm ==
    \/ \E i \in Slots : Serve(i)
    \/ \E i \in Slots : LoadResp(i) \/ ProductsResp(i) \/ StatsResp(i)
    \/ \E i \in Slots : EditResp(i) \/ PutResp(i) \/ DeleteResp(i) \/ ReloadTimer(i)
    \/ \E i \in Slots : DeleteScriptResp(i) \/ DeleteProductResp(i)
    \/ AllIdle /\ \E f \in FilterValues : LoadScripts(f)
    \/ AllIdle /\ LoadProducts
    \/ AllIdle /\ \E s \in ScriptIds : EditScript(s)
    \/ AllIdle /\ \E s \in ScriptIds, accept \in BOOLEAN : ConfirmUpdateScript(s, accept)
    \/ AllIdle /\ \E s \in ScriptIds, accept \in BOOLEAN : DeleteMP3(s, accept)
    \/ AllIdle /\ \E s \in ScriptIds, accept \in BOOLEAN : DeleteScript(s, accept)
    \/ AllIdle /\ \E p \in 1..NumProducts, accept \in BOOLEAN : DeleteProduct(p, accept)
    \/ AllIdle /\ CloseModal
SpecConfirm == InitConfirm /\ [][NextConfirm]_vars

\* ------------------------------------------------- voices and providers
\* the lists of available providers GET /tts/providers may answer with, in the order of
\* generateProviderOptions
ProviderLists == {<<"edge">>, <<"edge", "azure">>}
\* the persona catalogues loadPersonas may have stored; the empty one is also what is
\* left when its request failed
PersonaLists == {<<>>, <<Persona(1, "")>>, <<Persona(1, "azure")>>,
                 <<Persona(1, "edge"), Persona(2, "azure")>>}

\* GET /tts/providers answered with a list of available providers
ServeProviders(i) ==
    /\ tasks[i].op = "gen" /\ tasks[i].pc = "providers"
    /\ tasks[i].resp.st = "pending"
    /\ \E l \in ProviderLists : tasks' = [tasks EXCEPT ![i].resp = [st |-> "ok", body |-> l]]
    /\ ev' = Ev("backend", 0, 0, {}, {}, <<>>)
    /\ UNCHANGED <<srv, currentScripts, view, filter, modal, shop>>

\* the user picks a provider in the enhanced dialog: updateProviderVoices
SelectProvider(p) ==
    /\ UserActs
    /\ modal.kind = "mp3" /\ \E k \in 1..Len(modal.providers) : modal.providers[k] = p
    /\ modal' = WithProvider(modal, voicePersonas, p)
    /\ ev' = Ev("selectProvider", 0, modal.id, {}, {}, <<>>)
    /\ UNCHANGED <<srv, currentScripts, view, filter, tasks, shop>>

\* the user picks a voice in the voice select of a dialog
SelectVoice(v) ==
    /\ UserActs
    /\ modal.kind \in {"mp3", "mp3basic", "bulk"}
    /\ \E k \in 1..Len(modal.voices) : modal.voices[k] = v
    /\ modal' = [modal EXCEPT !.voice = v]
    /\ ev' = Ev("selectVoice", 0, modal.id, {}, {}, <<>>)
    /\ UNCHANGED <<srv, currentScripts, view, filter, tasks, shop>>

VoiceStep ==
    \/ \E i \in Slots : ServeProviders(i)
    \/ \E p \in {"edge", "azure"} : SelectProvider(p)
    \/ \E v \in 1..2 : SelectVoice(v)

\* MP3 generation of one script from the three dialogs, with every persona catalogue
InitVoice == InitPageWith(OneScript, {Draft}, PersonaLists)
NextVoice == BackendStep \/ ListStep \/ PollStep \/ BulkStep \/ VoiceStep
SpecVoice == InitVoice /\ [][NextVoice]_vars

\* ------------------------------------------------------------ properties
\* an operation in slot i whose request has settled
Settled(i) == tasks[i].resp.st \notin {"pending", "none"}

\* C1: the client never sends PUT /scripts/{id} for a script whose has_mp3 is true at
\* the moment the PUT is sent.
C1_NoPutWhileHasMp3 == \A r \in ev.reqs : r.m = "PUT" => ~(srv[r.id].has_mp3 = TRUE)

C3_FormOnlyAfterFreshFetch ==
    [][/\ (modal'.kind = "edit" /\ modal' # modal) =>
            \E i \in Slots :
                /\ tasks[i].op = "edit" /\ tasks[i].id = modal'.id
                /\ tasks[i].resp.st = "ok"
                /\ tasks[i].resp.body[1].has_mp3 # TRUE
                /\ tasks[i].resp.body[1].can_edit # FALSE
                /\ tasks'[i] = Idle /\ ev'.op = "editScript_done" /\ ev'.slot = i
       /\ \A i \in Slots :
            (tasks[i].op = "edit" /\ Settled(i) /\ tasks'[i] # tasks[i]) =>
                /\ tasks[i].resp.st # "ok" =>
                       ev'.alerts = {"error:edit_load"} /\ modal' = modal
                /\ (tasks[i].resp.st = "ok" /\ tasks[i].resp.body[1].has_mp3 = TRUE) =>
                       ev'.alerts = {"warning:edit_has_mp3"} /\ modal' = modal
                /\ (/\ tasks[i].resp.st = "ok" /\ tasks[i].resp.body[1].has_mp3 # TRUE
                    /\ tasks[i].resp.body[1].can_edit = FALSE) =>
                       ev'.alerts = {"warning:edit_locked"} /\ modal' = modal]_vars

\* the edit form was opened for a script the cache lists
C3_FormOpened ==
    /\ ev.op = "editScript_done" /\ ev.alerts = {} /\ modal = EditModal(ev.id)
    /\ findIndex(currentScripts, ev.id) # 0

\* C10: the step that handles the OK response to DELETE /scripts/{id}/mp3 sets the
\* cached entry of the script, when there is one, to has_mp3 false and can_edit true,
\* and starts one 500 ms timer; when the timer fires loadScripts is called once and the
\* operation ends with that reload.
C10_OptimisticUnlock ==
    [][\A i \in Slots :
        /\ (/\ tasks[i].op = "del" /\ tasks[i].pc = "wait" /\ tasks[i].resp.st = "ok"
            /\ tasks'[i] # tasks[i]) =>
               LET k == findIndex(currentScripts, tasks[i].id)
               IN /\ k # 0 => /\ currentScripts'[k].has_mp3 = FALSE
                              /\ currentScripts'[k].can_edit = TRUE
                  /\ ev'.timers = <<500>> /\ ev'.reqs = {}
                  /\ tasks'[i].pc = "timer" /\ tasks'[i].log = <<>>
        /\ (tasks[i].op = "del" /\ tasks[i].pc = "timer" /\ tasks'[i] # tasks[i]) =>
               /\ ev'.op = "reloadTimer" /\ ev'.timers = <<>>
               /\ \/ tasks'[i] = Idle /\ view' = Placeholder
                  \/ /\ tasks'[i].pc = "load" /\ tasks'[i].log = <<"load">>
                     /\ ev'.reqs = {Req("GET", "product_scripts", 0)}
        /\ (/\ tasks[i].op = "del" /\ tasks[i].pc = "load" /\ Settled(i)
            /\ tasks'[i] # tasks[i]) =>
               tasks'[i] = Idle /\ ev'.reqs = {} /\ ev'.timers = <<>>]_vars

\* an MP3 deletion succeeded and the cached entry of the script reads unlocked
C10_Unlocked ==
    /\ ev.op = "deleteMP3_done" /\ ev.timers = <<reloadDelay>>
    /\ findIndex(currentScripts, ev.id) # 0
    /\ currentScripts[findIndex(currentScripts, ev.id)].has_mp3 = FALSE
    /\ currentScripts[findIndex(currentScripts, ev.id)].can_edit = TRUE

\* the step is a step of the operation in slot i
StepOf(i) == ev'.slot = i /\ ev'.op # "backend"
\* the single poll in slot i has seen its response and it is "not ready"
NotReady(i) ==
    /\ tasks[i].op = "poll" /\ tasks[i].pc = "wait" /\ Settled(i)
    /\ ~(tasks[i].resp.st = "ok" /\ tasks[i].resp.body[1].has_mp3 = TRUE)

\* C4: a single poll chain issues its first GET /scripts/{id} when the generate request
\* is answered OK and every further one when its timer fires; every "not ready"
\* observation (has_mp3 false, non-OK response, fetch error) starts one 1000 ms timer;
\* the chain never issues more than 30 GETs, and it stops with the timeout notice exactly
\* when 30 GETs were issued and all 30 observations were "not ready".
C4_ThirtyPolls ==
    [][\A i \in Slots :
        /\ tasks'[i].op = "poll" => tasks'[i].gets <= 30
        /\ (tasks[i].op = "gen" /\ tasks'[i].op = "poll") =>
               /\ tasks'[i].gets = 1 /\ tasks'[i].attempts = 0
               /\ ev'.reqs = {Req("GET", "script", tasks[i].id)}
        /\ (NotReady(i) /\ tasks'[i] # tasks[i]) =>
               /\ ev'.timers = <<1000>> /\ ev'.reqs = {}
               /\ tasks'[i].pc = "timer" /\ tasks'[i].gets = tasks[i].gets
               /\ tasks'[i].attempts = tasks[i].gets
        /\ (tasks[i].op = "poll" /\ tasks[i].pc = "timer" /\ tasks'[i] # tasks[i]) =>
               /\ StepOf(i) /\ ev'.timers = <<>>
               /\ IF tasks[i].gets = 30
                  THEN ev'.op = "poll_timeout" /\ ev'.reqs = {} /\ tasks'[i] = Idle
                  ELSE /\ ev'.op = "poll_fetch" /\ tasks'[i].gets = tasks[i].gets + 1
                       /\ ev'.reqs = {Req("GET", "script", tasks[i].id)}
        /\ (StepOf(i) /\ ev'.op = "poll_timeout") =>
               tasks[i].gets = 30 /\ tasks[i].attempts = 30 /\ tasks[i].log = <<>>]_vars

\* a single poll chain stopped at its cap
C4_TimedOut == ev.op = "poll_timeout" /\ ev.alerts = {"warning:poll_timeout"}

\* C5: the step of a single poll chain that handles the first response showing has_mp3
\* true announces completion and calls loadScripts; from then on the chain starts no
\* timer and issues no GET /scripts/{id}, it calls loadScripts once, reloads the stats
\* once when loadScripts has returned, and ends when the stats request has settled.
C5_ReadyEndsChain ==
    [][\A i \in Slots :
        /\ (/\ tasks[i].op = "poll" /\ tasks[i].pc = "wait" /\ tasks[i].resp.st = "ok"
            /\ tasks[i].resp.body[1].has_mp3 = TRUE /\ tasks'[i] # tasks[i]) =>
               /\ StepOf(i) /\ ev'.op = "poll_complete"
               /\ ev'.alerts = {"success:mp3_complete"}
               /\ tasks[i].log = <<>>
               /\ \/ tasks'[i].log = <<"complete", "load">> /\ tasks'[i].pc = "load"
                  \/ /\ tasks'[i].log = <<"complete", "load", "stats">>
                     /\ tasks'[i].pc = "stats" /\ filter = ""
        /\ (tasks[i].op = "poll" /\ tasks[i].pc = "wait" /\ tasks'[i].log # <<>>) =>
               tasks[i].resp.st = "ok" /\ tasks[i].resp.body[1].has_mp3 = TRUE
        /\ (tasks'[i].op = "poll" /\ tasks'[i].log # <<>>) =>
               /\ tasks'[i].pc \in {"load", "stats"}
               /\ StepOf(i) =>
                      /\ ev'.timers = <<>>
                      /\ Req("GET", "script", tasks'[i].id) \notin ev'.reqs
        /\ (/\ tasks[i].op = "poll" /\ tasks[i].pc = "load" /\ Settled(i)
            /\ tasks'[i] # tasks[i]) =>
               /\ tasks[i].log = <<"complete", "load">>
               /\ tasks'[i].log = <<"complete", "load", "stats">> /\ tasks'[i].pc = "stats"
               /\ ev'.reqs = {Req("GET", "stats", 0)}
        /\ (/\ tasks[i].op = "poll" /\ tasks[i].pc = "stats" /\ Settled(i)
            /\ tasks'[i] # tasks[i]) =>
               /\ tasks[i].log = <<"complete", "load", "stats">>
               /\ tasks'[i] = Idle /\ ev'.reqs = {} /\ ev'.timers = <<>>]_vars

\* a completed single poll chain has reloaded the list and is reloading the stats
C5_ChainEnding ==
    \E i \in Slots : tasks[i].op = "poll" /\ tasks[i].log = <<"complete", "load", "stats">>

\* C6: a poll chain times out in the step of its timer that finds the attempt counter at
\* the cap (30 single, 60 bulk); that step raises one warning, sends no request, starts
\* no timer, leaves the cache and the list as they are and ends the chain, so nothing of
\* it is left to observe a later completion; a chain that times out has announced no
\* completion, and a chain that announced completion never times out.
C6_TimeoutOnce ==
    [][\A i \in Slots :
        /\ (StepOf(i) /\ ev'.op \in {"poll_timeout", "bulk_timeout"}) =>
               /\ tasks[i].op = (IF ev'.op = "poll_timeout" THEN "poll" ELSE "bulk")
               /\ tasks[i].attempts = (IF ev'.op = "poll_timeout" THEN 30 ELSE 60)
               /\ tasks[i].pc = "timer" /\ tasks[i].log = <<>>
               /\ Cardinality(ev'.alerts) = 1
               /\ ev'.alerts \subseteq {"warning:poll_timeout", "warning:bulk_timeout"}
               /\ ev'.reqs = {} /\ ev'.timers = <<>>
               /\ currentScripts' = currentScripts /\ view' = view
               /\ tasks'[i] = Idle
        /\ (tasks[i].op \in {"poll", "bulk"} /\ tasks[i].pc = "timer"
            /\ tasks[i].attempts = (IF tasks[i].op = "poll" THEN 30 ELSE 60)
            /\ tasks'[i] # tasks[i]) =>
               StepOf(i) /\ ev'.op \in {"poll_timeout", "bulk_timeout"}
        /\ (StepOf(i) /\ ev'.op \in {"poll_complete", "bulk_complete"}) =>
               /\ tasks[i].attempts < (IF ev'.op = "poll_complete" THEN 30 ELSE 60)
               /\ tasks'[i].log # <<>>
        /\ (tasks[i].op \in {"poll", "bulk"} /\ tasks[i].log # <<>>) =>
               /\ tasks[i].pc \in {"load", "stats"}
               /\ StepOf(i) => ev'.alerts \cap {"warning:poll_timeout",
                                                "warning:bulk_timeout"} = {}]_vars

\* a bulk chain stopped at its cap while an MP3 job of the batch is still running
C6_BulkTimedOut ==
    /\ ev.op = "bulk_timeout" /\ ev.alerts = {"warning:bulk_timeout"}
    /\ \E s \in DOMAIN srv : srv[s].job

\* C7: the step of a poll chain that handles a failed fetch (rejected fetch, unparsable
\* body) raises no alert, sends nothing, starts the timer of the chain (1000 ms single,
\* 2000 ms bulk) and increases the attempt counter by one, exactly as the step that
\* handles a "not ready" answer does.
C7_FailureSwallowed ==
    [][\A i \in Slots :
        /\ (NotReady(i) /\ tasks'[i] # tasks[i]) =>
               /\ StepOf(i) /\ ev'.alerts = {} /\ ev'.reqs = {} /\ ev'.timers = <<1000>>
               /\ ev'.op = (IF tasks[i].resp.st = "reject" THEN "poll_caught"
                                                           ELSE "poll_retry")
               /\ tasks'[i].op = "poll" /\ tasks'[i].pc = "timer"
               /\ tasks'[i].attempts = tasks[i].attempts + 1
        /\ (tasks[i].op = "bulk" /\ tasks[i].pc = "wait" /\ tasks'[i].pc # "wait"
            /\ \E s \in tasks[i].ids : tasks[i].got[s] = "reject") =>
               /\ StepOf(i) /\ ev'.op = "bulk_caught"
               /\ ev'.alerts = {} /\ ev'.reqs = {} /\ ev'.timers = <<2000>>
               /\ tasks'[i].op = "bulk" /\ tasks'[i].pc = "timer"
               /\ tasks'[i].ids = tasks[i].ids
               /\ tasks'[i].attempts = tasks[i].attempts + 1
        /\ (tasks[i].op = "bulk" /\ tasks[i].pc = "wait" /\ tasks'[i].pc = "timer") =>
               ev'.timers = <<2000>> /\ tasks'[i].attempts = tasks[i].attempts + 1]_vars

\* a single poll chain went on after a failed fetch in a later round
C7_Swallowed ==
    /\ ev.op = "poll_caught" /\ ev.alerts = {}
    /\ tasks[ev.slot].pc = "timer" /\ tasks[ev.slot].attempts > 1

\* C8: the completedCount computed by successive rounds of one bulk chain never
\* decreases.
C8_CountMonotone ==
    [][\A i \in Slots :
        (tasks[i].op = "bulk" /\ tasks'[i].op = "bulk" /\ tasks'[i].log = <<>>) =>
            tasks'[i].count >= tasks[i].count]_vars

\* C9: every round of a bulk chain sends one GET /scripts/{id} per id of the batch, and
\* the batch stays the same; the chain announces completion and calls loadScripts only
\* in the step that finds has_mp3 true in the answer for every id; a round that finds
\* it in some but not all answers reports the progress and goes on.
C9_BulkRounds ==
    [][\A i \in Slots :
        /\ (tasks'[i].op = "bulk" /\ tasks'[i].pc = "wait" /\ tasks[i].pc # "wait") =>
               /\ StepOf(i) /\ tasks'[i].ids # {}
               /\ tasks'[i].ids = tasks[i].ids
               /\ ev'.reqs = {Req("GET", "script", s) : s \in tasks'[i].ids}
               /\ \A s \in tasks'[i].ids : tasks'[i].got[s] = "pending"
        /\ (StepOf(i) /\ ev'.op = "bulk_complete") =>
               /\ \A s \in tasks[i].ids : tasks[i].got[s] = "yes"
               /\ ev'.alerts = {"success:bulk_complete"}
               /\ tasks'[i].log \in {<<"complete", "load">>, <<"complete", "load", "stats">>}
        /\ (tasks'[i].op = "bulk" /\ tasks'[i].log # <<>> /\ tasks[i].log = <<>>) =>
               ev'.op = "bulk_complete"
        /\ (/\ tasks[i].op = "bulk" /\ tasks[i].pc = "wait" /\ tasks'[i].pc # "wait"
            /\ \A s \in tasks[i].ids : tasks[i].got[s] \in {"yes", "no"}
            /\ \E s \in tasks[i].ids : tasks[i].got[s] = "yes"
            /\ \E s \in tasks[i].ids : tasks[i].got[s] = "no") =>
               /\ ev'.op = "bulk_retry" /\ ev'.alerts = {"info:progress"}
               /\ tasks'[i].count = Cardinality({s \in tasks[i].ids : tasks[i].got[s] = "yes"})
               /\ tasks'[i].pc = "timer"]_vars

\* a round of a bulk chain over two scripts reported one of them done
C9_PartialProgress ==
    /\ ev.op = "bulk_retry" /\ ev.alerts = {"info:progress"}
    /\ tasks[ev.slot].count = 1 /\ Cardinality(tasks[ev.slot].ids) = 2

C12_CachesAreArrays == currentProducts.kind = "array"

\* the lists the backend holds for the products 1..n that are in kept, in product order
RECURSIVE ListsOf(_, _)
ListsOf(n, kept) ==
    IF n = 0 THEN <<>>
    ELSE ListsOf(n - 1, kept) \o (IF n \in kept THEN ScriptsOf(n, srv) ELSE <<>>)

\* C13: each loader replaces its cache wholesale. When a loader finishes on an answer
\* that carries a list, the cache is exactly the list the backend holds for the filter
\* of the call, whatever the cache held before, so that loading twice on an unchanged
\* backend leaves what loading once leaves. For ALL products the list is the
\* concatenation, in product order, of the lists of the products whose request
\* succeeded.
C13_WholesaleReplacement ==
    [][\A i \in Slots :
        /\ (tasks[i].pc = "load" /\ tasks[i].resp.st = "ok" /\ tasks'[i] = Idle)
              => currentScripts' = ScriptsOf(1, srv)
        /\ (tasks[i].pc = "all" /\ tasks'[i] = Idle)
              => currentScripts' =
                    ListsOf(NumProducts,
                            {p \in 1..NumProducts : tasks[i].parts[p].st = "ok"})
        /\ (tasks[i].op = "loadProducts" /\ tasks[i].resp.st = "ok" /\ tasks'[i] = Idle)
              => /\ currentProducts' = Arr(Products)
                 /\ filteredProducts' = Products]_vars

\* a one-product list has arrived while the cache holds another, non-empty list
C13_ReplacesOtherList ==
    \E i \in Slots :
        /\ tasks[i].pc = "load" /\ tasks[i].resp.st = "ok"
        /\ currentScripts # <<>> /\ currentScripts # tasks[i].resp.body

\* C14, as stated: loadScripts for ALL products sends one GET /products, then one
\* GET /products/{id}/scripts per returned product, all in one step, and the merged
\* list it leaves in currentScripts is as long as the script lists of all the products
\* together.
C14_MergedLengthIsSum ==
    [][\A i \in Slots :
        /\ (tasks[i].pc = "products" /\ tasks[i].op = "load" /\ tasks'[i].pc = "all")
              => ev'.reqs = {Req("GET", "product_scripts", Products[p].id) :
                               p \in 1..NumProducts}
        /\ (tasks[i].pc = "all" /\ tasks'[i] = Idle)
              => Len(currentScripts') = Len(ListsOf(NumProducts, 1..NumProducts))]_vars

\* C15: every poll chain, single or bulk, comes to an end when timers fire and fetches
\* settle. A chain ends only in a step of its own, on detecting success or on finding
\* its attempt cap reached; while it runs its script ids stay and its attempt count
\* only grows, by one per round. A change of section, a change of the filter and the
\* closing of a dialog leave every running chain as it was.
C15_ChainsEndOnlyByThemselves ==
    /\ \A i \in Slots : Running(i) ~> ~Running(i)
    /\ [][\A i \in Slots : Running(i) =>
            /\ ev'.op \in {"navigate", "loadScripts", "closeModal"} => tasks'[i] = tasks[i]
            /\ ~Running(i)' =>
                  /\ StepOf(i)
                  /\ \/ ev'.op \in {"poll_complete", "bulk_complete"}
                     \/ /\ ev'.op = "poll_timeout" /\ tasks[i].attempts = maxAttempts
                     \/ /\ ev'.op = "bulk_timeout" /\ tasks[i].attempts = bulkMaxAttempts
            /\ Running(i)' =>
                  /\ tasks'[i].op = tasks[i].op
                  /\ tasks'[i].id = tasks[i].id /\ tasks'[i].ids = tasks[i].ids
                  /\ tasks'[i].attempts \in {tasks[i].attempts, tasks[i].attempts + 1}]_vars

\* a chain is still running after the user left the overview, cleared the filter and
\* closed a dialog
C15_RunningAfterDisturbance ==
    \E i \in Slots :
        /\ Running(i)
        /\ section # "overview" /\ filter = "" /\ ev.op = "closeModal"

\* the operation in slot i is a generate request (single or bulk) awaiting its answer
Posting(i) == tasks[i].op \in {"gen", "bulkgen"} /\ tasks[i].pc = "wait"

\* C16: a poll chain starts only in the step that handles an OK answer to
\* POST /mp3/generate. When the POST is rejected or answered non-OK, for a single
\* script or for a batch, that step shows an error alert, sends no request, arms no
\* timer, ends the operation and leaves currentScripts as it was.
C16_ChainOnlyAfterOk ==
    [][\A i \in Slots :
        /\ (Running(i)' /\ tasks[i].op \notin {"poll", "bulk"})
              => Posting(i) /\ tasks[i].resp.st = "ok" /\ StepOf(i)
        /\ (Posting(i) /\ StepOf(i) /\ tasks[i].resp.st \in {"notok", "reject"})
              => /\ \E a \in ev'.alerts : a \in {"error:generate", "error:bulk_generate"}
                 /\ ev'.reqs = {} /\ ev'.timers = <<>>
                 /\ tasks'[i] = Idle
                 /\ \A j \in Slots : ~Running(j) => ~Running(j)'
                 /\ currentScripts' = currentScripts]_vars

\* a bulk generate request has just failed with its error alert
C16_BulkPostFailed ==
    /\ ev.op = "confirmBulkMP3Generation_done" /\ ev.alerts = {"error:bulk_generate"}
    /\ \A i \in Slots : ~Running(i)

\* C17, as stated: POST /mp3/generate is sent for a script only while the script is
\* DRAFT at the backend when the request is sent: it has no MP3 and no generation job
\* in flight. This holds for the single request and for every id of a bulk request.
C17_PostOnlyWhileDraft ==
    \A r \in ev.reqs :
        r.m = "POST" =>
            \A s \in (IF r.id # 0 THEN {r.id} ELSE tasks[ev.slot].ids) :
                ~srv[s].has_mp3 /\ ~srv[s].job

\* the ids of a sequence of ids, and whether it names an id twice
Ids(seq) == {seq[k] : k \in 1..Len(seq)}
NoDuplicates(seq) == \A j, k \in 1..Len(seq) : seq[j] = seq[k] => j = k

\* C18: the dialog lists exactly the scripts whose cached has_mp3 is false when it
\* opens; the script_ids that confirmBulkMP3Generation submits name no id twice and
\* only ids listed in the dialog; after Select All the selection is all the listed
\* ids, after Deselect All it is empty.
C18_Selection ==
    [][/\ (ev'.op = "showBulkMP3GenerationModal" /\ ev'.alerts = {}) =>
            /\ modal'.listed = {currentScripts[k].id :
                                  k \in {j \in 1..Len(currentScripts) :
                                            ~currentScripts[j].has_mp3}}
            /\ Len(modal'.rows) = Cardinality(modal'.listed)
       /\ (ev'.op = "confirmBulkMP3Generation" /\ ev'.reqs # {}) =>
            /\ NoDuplicates(tasks'[ev'.slot].sent)
            /\ Ids(tasks'[ev'.slot].sent) \subseteq modal.listed
            /\ tasks'[ev'.slot].sent = Selected(modal.rows)
       /\ ev'.op = "selectAll" =>
            /\ Ids(Selected(modal'.rows)) = modal.listed
            /\ NoDuplicates(Selected(modal'.rows))
            /\ modal'.listed = modal.listed
       /\ ev'.op = "deselectAll" =>
            Selected(modal'.rows) = <<>> /\ modal'.listed = modal.listed]_vars

\* a batch smaller than the list of the dialog has been submitted
C18_PartSubmitted ==
    /\ ev.op = "confirmBulkMP3Generation" /\ ev.reqs # {}
    /\ Len(tasks[ev.slot].sent) = 1
    /\ \E k \in 1..Len(currentScripts) :
          ~currentScripts[k].has_mp3 /\ currentScripts[k].id \notin tasks[ev.slot].ids

\* C19: the last write to currentScripts wins. Whenever loadScripts processes the
\* answer to its request, the cache becomes the list of that answer (the empty list
\* when the request failed), whether or not another loadScripts call is in flight and
\* whichever of them was issued first; so once overlapping calls have all finished the
\* cache holds the result of the call processed last.
C19_LastWriteWins ==
    [][\A i \in Slots :
        (tasks[i].pc = "load" /\ Settled(i) /\ tasks'[i].pc # "load") =>
            /\ currentScripts' = IF tasks[i].resp.st = "ok" THEN tasks[i].resp.body ELSE <<>>
            /\ \A j \in Slots \ {i} : tasks'[j] = tasks[j]]_vars

\* of two overlapping loadScripts calls the one issued second has been processed; the
\* one issued first is answered with another list and will be processed last
C19_OverlapSecondFirst ==
    /\ ev.op = "loadScripts_done" /\ ev.slot = 2
    /\ tasks[1].pc = "load" /\ Settled(1)
    /\ tasks[1].resp.st = "ok" /\ tasks[1].resp.body # currentScripts
    /\ currentScripts # <<>>

\* C20: when the DELETE of an MP3 is rejected or answered non-OK, deleteMP3 shows an
\* error alert and gives up: the cache and the rendered list stay as they were, no
\* reload timer is armed, no request is sent and the operation is over.
C20_FailedDeleteAbandoned ==
    [][\A i \in Slots :
        (/\ tasks[i].op = "del" /\ tasks[i].pc = "wait"
         /\ tasks[i].resp.st \in {"notok", "reject"} /\ StepOf(i)) =>
            /\ ev'.alerts = {"error:mp3_delete"}
            /\ currentScripts' = currentScripts /\ view' = view
            /\ ev'.timers = <<>> /\ ev'.reqs = {}
            /\ tasks'[i] = Idle]_vars

\* a deletion has just failed and the script is still locked in the cache
C20_DeleteFailed ==
    /\ ev.op = "deleteMP3_done" /\ ev.alerts = {"error:mp3_delete"}
    /\ \E k \in 1..Len(currentScripts) :
          /\ currentScripts[k].id = ev.id
          /\ currentScripts[k].has_mp3 /\ ~currentScripts[k].can_edit

\* C21, as stated: in every state in which a user event can be handled, each rendered
\* card is the card of a cached script and offers the actions of that script's cached
\* has_mp3 flag (Edit / Create MP3 when false, Play / Delete MP3 when true).
C21_CardsAgreeWithCache ==
    \A k \in 1..Len(view.cards) :
        \E j \in 1..Len(currentScripts) :
            /\ currentScripts[j].id = view.cards[k].id
            /\ currentScripts[j].has_mp3 = view.cards[k].has_mp3

\* C22, as stated: every POST /mp3/generate carries a voice_persona_id that is the id of a
\* persona in voicePersonas (never null or NaN), from the enhanced, the basic and the bulk
\* dialog alike.
C22_VoiceIsAPersona ==
    \A r \in ev.reqs :
        (r.m = "POST" /\ r.path = "generate") =>
            \E k \in 1..Len(voicePersonas) : voicePersonas[k].id = r.voice

\* the ids of the scripts of a list
IdsOf(list) == {list[k].id : k \in 1..Len(list)}

\* C23: when loadScripts for ALL products finishes and the scripts request of some
\* product failed, the load does not fail: that product contributes no script, the
\* scripts of every product whose request succeeded are in currentScripts, the list is
\* drawn from them, and there is neither an error panel nor an alert.
C23_PartFailureTolerated ==
    [][\A i \in Slots :
        (/\ tasks[i].pc = "all" /\ tasks'[i] = Idle
         /\ \E p \in DOMAIN tasks[i].parts : tasks[i].parts[p].st \in {"notok", "reject"})
        => /\ \A p \in DOMAIN tasks[i].parts :
                IF tasks[i].parts[p].st = "ok"
                THEN IdsOf(ScriptsOf(p, srv)) \subseteq IdsOf(currentScripts')
                ELSE IdsOf(ScriptsOf(p, srv)) \cap IdsOf(currentScripts') = {}
           /\ view' = ListView(currentScripts')
           /\ ev'.alerts = {}]_vars

\* a load of ALL products has finished with the scripts of the first product only: the
\* request of another product failed
C23_OnePartFailed ==
    /\ filter = "all" /\ ev.op = "loadScripts_done" /\ ev.alerts = {}
    /\ view.kind = "list" /\ currentScripts = ScriptsOf(1, srv)

\* C24: when loadScripts fails as a whole (the products request of ALL mode, or the
\* scripts request of one product, is rejected or answered non-OK), currentScripts is
\* reset to empty, the error panel with its retry button is drawn and an error alert is
\* shown, whatever the cache held; a call with no product selected sends no request and
\* leaves currentScripts as it was.
C24_WholeFailureResets ==
    [][/\ \A i \in Slots :
            (/\ tasks[i].op = "load" /\ tasks[i].pc \in {"products", "load"}
             /\ tasks[i].resp.st \in {"notok", "reject"}
             /\ tasks'[i] # tasks[i])
            => /\ currentScripts' = <<>>
               /\ view'.kind = "error" /\ view'.cards = <<>>
               /\ ev'.alerts = {"error:load_scripts"}
       /\ (ev'.op = "loadScripts" /\ filter' = "")
            => /\ ev'.reqs = {} /\ tasks' = tasks
               /\ currentScripts' = currentScripts]_vars

\* a load has failed as a whole: the cache is empty behind the error panel
C24_LoadFailed ==
    /\ ev.op = "loadScripts_done" /\ ev.alerts = {"error:load_scripts"}
    /\ view.kind = "error" /\ currentScripts = <<>>

\* C25, as stated: each click on a navigation item triggers exactly one loadSectionData
\* call, after any number of calls to refreshDashboard.
C25_OneLoaderPerClick ==
    [][ev'.op = "navigate" => Cardinality({i \in Slots : tasks'[i] # tasks[i]}) = 1]_vars

\* the handlers that open with confirm(...)
ConfirmOps == {"deleteMP3", "deleteScript", "confirmUpdateScript", "deleteProduct"}

\* C26: a DELETE of a script's MP3, of a script or of a product, and a PUT of a script,
\* is sent only in the step in which the user accepted the confirmation dialog of its
\* handler; when the user declines, no request is sent, no timer is set, no operation
\* starts, the caches stay as they were and nothing is drawn again.
C26_OnlyAfterConfirmation ==
    [][/\ \A r \in ev'.reqs :
            r.m \in {"DELETE", "PUT"} => (ev'.op \in ConfirmOps /\ ev'.answer)
       /\ (ev'.op \in ConfirmOps /\ ~ev'.answer)
            => /\ ev'.reqs = {} /\ ev'.timers = <<>> /\ tasks' = tasks
               /\ currentScripts' = currentScripts /\ currentProducts' = currentProducts
               /\ view' = view /\ grid' = grid /\ modal' = modal]_vars

\* the user has declined to delete a script that is in the cache
C26_Declined ==
    /\ ev.op = "deleteScript" /\ ~ev.answer
    /\ findIndex(currentScripts, ev.id) # 0

\* C27: when no script is checked in the bulk dialog, or no voice persona is chosen, a
\* click on Generate All sends no request, sets no timer and starts no chain; it shows
\* the error alert, leaves the dialog open as it was and leaves the caches unchanged.
C27_NothingWithoutSelection ==
    [][(/\ ev'.op = "confirmBulkMP3Generation"
        /\ \/ \A k \in 1..Len(modal.rows) : ~modal.rows[k].checked
           \/ modal.voice = 0)
       => /\ ev'.reqs = {} /\ ev'.timers = <<>>
          /\ tasks' = tasks
          /\ ev'.alerts = {"error:select_scripts"}
          /\ modal' = modal /\ modal.kind = "bulk"
          /\ currentScripts' = currentScripts /\ view' = view]_vars

\* Generate All was clicked with every box unchecked
C27_Refused ==
    /\ ev.op = "confirmBulkMP3Generation" /\ ev.alerts = {"error:select_scripts"}
    /\ modal.kind = "bulk" /\ modal.rows # <<>>
    /\ \A k \in 1..Len(modal.rows) : ~modal.rows[k].checked

\* C28, as stated: a click on Create MP3 for a script that is not in currentScripts, or
\* with no voice persona loaded, shows an error alert and sends no request; a generation
\* dialog opens only at the end of an attempt that passed these checks; and an attempt
\* whose providers request failed ends with the basic dialog of its script open.
C28_DialogOrRefusal ==
    [][/\ (/\ ev'.op = "generateMP3ForScript"
           /\ (findIndex(currentScripts, ev'.id) = 0 \/ voicePersonas = <<>>))
          => /\ ev'.alerts \in {{"error:script_not_found"}, {"error:no_personas"}}
             /\ ev'.reqs = {} /\ tasks' = tasks /\ modal' = modal
       /\ (modal'.kind \in {"mp3", "mp3basic"} /\ modal.kind \notin {"mp3", "mp3basic"})
          => /\ ev'.op = "generateMP3ForScript_done"
             /\ tasks[ev'.slot].op = "gen" /\ tasks[ev'.slot].pc = "providers"
             /\ voicePersonas # <<>>
       /\ \A i \in Slots :
            (/\ tasks[i].op = "gen" /\ tasks[i].pc = "providers"
             /\ tasks[i].resp.st = "reject" /\ tasks'[i] # tasks[i])
            => /\ modal'.kind = "mp3basic" /\ modal'.id = tasks[i].id
               /\ ev'.reqs = {}]_vars
====
